---- MODULE Spec2Model ----
(***************************************************************************)
(* A model of the retrieval pipeline of rag-chatbot-prototype:             *)
(*   - the chunker            (src/src/utils/text_utils.py),               *)
(*   - the retry-wrapped provider client (src/src/utils/openai_utils.py)   *)
(*     and the embedding service on top of it,                             *)
(*   - the vector index, its search and its two persisted files            *)
(*                              (src/src/services/vector_service.py),      *)
(*   - the RAG orchestrator     (src/src/services/rag_service.py),         *)
(*   - the chat sessions        (src/src/services/chat_service.py),        *)
(*   - the document service     (src/src/services/document_service.py).    *)
(* Each component has its own specification over the shared variables; a   *)
(* component's specification leaves the other components' variables in     *)
(* their freshly constructed state.                                        *)
(***************************************************************************)
EXTENDS Integers, Sequences, FiniteSets, TLC

VARIABLES
    \* ---- chunker: one call of create_text_chunks ----
    clean_content,   \* the normalized text (sequence of characters)
    chunk_size,      \* parameter chunk_size
    chunk_overlap,   \* parameter chunk_overlap
    start,           \* local `start` of the sliding-window loop
    chunks,          \* local list `chunks` (the result when ck_pc = "done")
    ck_pc,           \* "idle" | "loop" | "done"
    \* ---- provider client: one call of an OpenAIClient operation ----
    cl_op,           \* "none" | "get_embedding" | "get_embeddings_batch" |
                     \* "chat_completion"
    cl_pc,           \* "idle" | "try" | "returned" | "raised" | "fell_through"
    cl_texts,        \* argument `texts` of get_embeddings_batch
    cl_i,            \* loop variable `i`: offset of the current sub-batch
    cl_attempt,      \* loop variable `attempt`
    cl_log,          \* the provider calls of the current sub-batch (of the
                     \* operation, for the two single-call operations), each
                     \* with its outcome and the sleep that followed it
    cl_sent,         \* offsets of the sub-batches submitted to the provider
    all_embeddings,  \* local list `all_embeddings`
    cl_result,       \* the value returned (when cl_pc = "returned")
    cl_error,        \* the class of the error raised (when cl_pc = "raised")
    es_chunk_embeddings, \* EmbeddingService.chunk_embeddings
    \* ---- vector index: a VectorService and its two files ----
    ix_index,        \* self.index: [live |-> FALSE] is None, else the
                     \* dimension d and the stored (normalized) vectors
    chunk_metadata,  \* self.chunk_metadata: slot -> chunk
    document_names,  \* self.document_names: document id -> file name
    dk_index,        \* the file at index_path
    dk_meta,         \* the file at metadata_path
    ix_call,         \* the last call of the service: arguments and result
    sr_call,         \* when the last call was a search: its arguments and
                     \* the response (NoSearch otherwise)
    \* ---- RAGService: one call of generate_response ----
    rg_pc,           \* "idle" | "embedding" | "completion" | "done"
    conversation_history, \* argument conversation_history of the request
    messages,        \* local `messages`: what chat_completion is called with
    rg_search,       \* the search of step 2: query embedding and response
    rg_response,     \* the ChatResponse returned (when rg_pc = "done")
    \* ---- ChatService ----
    sessions,        \* self.sessions: session id -> the session's messages
    current_session_id, \* self.current_session_id (NoneId: None)
    ch_uuids,        \* how many session ids uuid4 has produced
    ch_sent,         \* how many send_message calls were made
    ch_call,         \* the last call of the service: arguments, the state
                     \* before it, what it passed on and its result
    \* ---- DocumentService ----
    processed_documents, \* self.processed_documents: document id -> Document
    document_chunks, \* self.document_chunks: document id -> chunks
    dc_uuids,        \* how many document ids uuid4 has produced
    dc_call          \* the last call of the service: arguments and result

ck_vars == <<clean_content, chunk_size, chunk_overlap, start, chunks, ck_pc>>
cl_vars == <<cl_op, cl_pc, cl_texts, cl_i, cl_attempt, cl_log, cl_sent,
             all_embeddings, cl_result, cl_error, es_chunk_embeddings>>
ix_vars == <<ix_index, chunk_metadata, document_names, dk_index, dk_meta,
             ix_call, sr_call>>
rg_vars == <<rg_pc, conversation_history, messages, rg_search, rg_response>>
ch_vars == <<sessions, current_session_id, ch_uuids, ch_sent, ch_call>>
dc_vars == <<processed_documents, document_chunks, dc_uuids, dc_call>>
vars == <<ck_vars, cl_vars, ix_vars, rg_vars, ch_vars, dc_vars>>

----------------------------------------------------------------------------
\* Bounds of the model.
MaxLen == 6          \* longest raw text
MaxChunkSize == 5    \* largest chunk_size (and chunk_overlap) tried
MaxTexts == 201      \* most texts (chunks) in one batch call
MaxAdd == 2          \* most chunks in one add_embeddings call
MaxVectors == 2      \* most vectors held by the index
MaxDim == 2          \* largest dimension passed to create_index
MaxHistory == 7      \* longest conversation_history given to a request
MaxSessions == 2     \* most chat sessions created
MaxSends == 3        \* most send_message calls, sessions being chosen freely
MaxTurns == 6        \* most send_message calls of one conversation
MaxUploads == 2      \* most process_uploaded_file calls
MaxDocChunks == 2    \* most chunks made of one document
ScenarioLength == 2500   \* length of the texts chunked with the defaults

----------------------------------------------------------------------------
\* Generic helpers.
Min(a, b) == IF a <= b THEN a ELSE b
Max(a, b) == IF a >= b THEN a ELSE b
Max3(a, b, c) == Max(a, Max(b, c))

\* Python slice s[lo:hi] for 0 <= lo, on a 1-based TLA+ sequence.
Slice(s, lo, hi) == SubSeq(s, lo + 1, Min(hi, Len(s)))

----------------------------------------------------------------------------
\* Characters.  " " stands for any whitespace character, "a" for any
\* ordinary character, "." for any of the sentence terminators . ! ? (the
\* code takes the maximum of the three rfind results, so which terminator a
\* position holds makes no difference), and "M" for one page marker, i.e.
\* one match of  --- Page \d+ ---  in the whitespace-collapsed text.
RawChars == {"a", " ", ".", "M"}
RawTexts == UNION {[1..n -> RawChars] : n \in 0..MaxLen}

\* re.sub(r'\s+', ' ', text): every run of whitespace becomes one space.
RECURSIVE CollapseWhitespace(_)
CollapseWhitespace(s) ==
    IF Len(s) <= 1 THEN s
    ELSE IF s[1] = " " /\ s[2] = " " THEN CollapseWhitespace(Tail(s))
    ELSE <<s[1]>> \o CollapseWhitespace(Tail(s))

\* re.sub(r'--- Page \d+ ---\n?', '', text): the markers are deleted (the
\* optional newline can no longer be there).
RemovePageMarkers(s) == SelectSeq(s, LAMBDA c : c # "M")

\* re.sub(r'\n{3,}', '\n\n', text): no newline is left after the first
\* substitution, so nothing matches.
CollapseNewlines(s) == s

\* str.strip()
RECURSIVE LStrip(_)
LStrip(s) == IF s # <<>> /\ s[1] = " " THEN LStrip(Tail(s)) ELSE s
RECURSIVE RStrip(_)
RStrip(s) ==
    IF s # <<>> /\ s[Len(s)] = " " THEN RStrip(SubSeq(s, 1, Len(s) - 1)) ELSE s
Strip(s) == LStrip(RStrip(s))

clean_text(text) ==
    Strip(CollapseNewlines(RemovePageMarkers(CollapseWhitespace(text))))

\* str.rfind(ch, lo, hi) for 0 <= lo: the highest 0-based index i with
\* lo <= i < hi and s[i] = ch, or -1.
rfind(s, ch, lo, hi) ==
    LET hits == {i \in lo..(Min(hi, Len(s)) - 1) : s[i + 1] = ch}
    IN  IF hits = {} THEN -1 ELSE CHOOSE i \in hits : \A j \in hits : j <= i

----------------------------------------------------------------------------
\* create_text_chunks, one loop iteration per step.

\* The texts a call can work on: what lines 46-51 leave in clean_content
\* (an empty or whitespace-only text returns at once with no chunks, which
\* is also what the loop does on an empty clean_content).
CleanTexts == {clean_text(t) : t \in RawTexts}

\* The parameters tried: the valid ones and malformed ones (chunk_size = 0,
\* chunk_overlap < 0, chunk_overlap >= chunk_size).  chunk_size = 0 with a
\* positive overlap drives `start` below 0 without bound and is left out.
ParamPairs ==
    {p \in (0..MaxChunkSize) \X (-1..MaxChunkSize) : p[1] = 0 => p[2] <= 0}

ValidParams == chunk_size > 0 /\ 0 <= chunk_overlap /\ chunk_overlap < chunk_size

\* line 59
WindowEndUnclamped(s) == s + chunk_size
WindowEnd(s) == Min(s + chunk_size, Len(clean_content))

\* lines 64-68
SentenceBreak(s, e) ==
    Max3(rfind(clean_content, ".", s, e),
         rfind(clean_content, "!", s, e),
         rfind(clean_content, "?", s, e))

\* lines 59-72: the end of the chunk that starts at s
ChunkEnd(s) ==
    LET e == WindowEnd(s)
    IN  IF e < Len(clean_content) /\ SentenceBreak(s, e) > s + (chunk_size \div 2)
        THEN SentenceBreak(s, e) + 1
        ELSE e

\* lines 74-90: the chunk list after the window [s, e) was looked at
AppendAlways(cs, s, e) ==
    Append(cs, [chunk_index |-> Len(cs), start_char |-> s, end_char |-> e,
                content |-> Strip(Slice(clean_content, s, e))])
AppendChunk(cs, s, e) ==
    IF Strip(Slice(clean_content, s, e)) # <<>>
    THEN Append(cs, [chunk_index |-> Len(cs), start_char |-> s, end_char |-> e,
                     content |-> Strip(Slice(clean_content, s, e))])
    ELSE cs

\* lines 96-101: the next window start
NextStartNoProgress(cs, s, e) ==
    LET n == e - chunk_overlap
    IN  IF cs # <<>> /\ n < cs[Len(cs)].start_char THEN e ELSE n
NextStart(cs, s, e) ==
    LET n == Max(s + chunk_size - chunk_overlap, e - chunk_overlap)
    IN  IF cs # <<>> /\ n <= cs[Len(cs)].start_char THEN e ELSE n

\* No call of create_text_chunks is under way.
ChunkerInit ==
    /\ clean_content = <<>> /\ chunk_size = 0 /\ chunk_overlap = 0
    /\ start = 0 /\ chunks = <<>> /\ ck_pc = "idle"

\* lines 44-55: the call, up to the loop
ChunkCall ==
    /\ ck_pc = "idle"
    /\ clean_content' \in CleanTexts
    /\ \E p \in ParamPairs : chunk_size' = p[1] /\ chunk_overlap' = p[2]
    /\ start' = 0
    /\ chunks' = <<>>
    /\ ck_pc' = "loop"
    /\ UNCHANGED <<cl_vars, ix_vars, rg_vars, ch_vars, dc_vars>>

\* lines 57-101: one iteration of the while loop
ChunkStep ==
    /\ ck_pc = "loop"
    /\ start < Len(clean_content)
    /\ LET e  == ChunkEnd(start)
           cs == AppendChunk(chunks, start, e)
       IN  /\ chunks' = cs
           /\ IF e >= Len(clean_content)
              THEN /\ ck_pc' = "done"
                   /\ start' = start
              ELSE /\ ck_pc' = "loop"
                   /\ start' = NextStart(cs, start, e)
    /\ UNCHANGED <<clean_content, chunk_size, chunk_overlap>>
    /\ UNCHANGED <<cl_vars, ix_vars, rg_vars, ch_vars, dc_vars>>

\* lines 57, 103-104: the loop condition is false, the list is returned
ChunkReturn ==
    /\ ck_pc = "loop"
    /\ start >= Len(clean_content)
    /\ ck_pc' = "done"
    /\ UNCHANGED <<clean_content, chunk_size, chunk_overlap, start, chunks>>
    /\ UNCHANGED <<cl_vars, ix_vars, rg_vars, ch_vars, dc_vars>>

ChunkerNext == ChunkCall \/ ChunkStep \/ ChunkReturn

\* create_text_chunks with its default parameters (lines 29-30, the values
\* of Settings.chunk_size and Settings.chunk_overlap too) on a normalized
\* text of ScenarioLength characters: ordinary characters, with sentence
\* terminators at some of the offsets below (before, at and after the
\* midpoint of the first and of the second window, and in the last one).
default_chunk_size == 1000
default_chunk_overlap == 200
TerminatorOffsets == {400, 500, 600, 950, 1400, 1750, 2400}
ScenarioTexts ==
    {[i \in 1..ScenarioLength |-> IF (i - 1) \in T THEN "." ELSE "a"] :
        T \in SUBSET TerminatorOffsets}

\* lines 44-55 for such a call
ScenarioCall ==
    /\ ck_pc = "idle"
    /\ clean_content' \in ScenarioTexts
    /\ chunk_size' = default_chunk_size
    /\ chunk_overlap' = default_chunk_overlap
    /\ start' = 0
    /\ chunks' = <<>>
    /\ ck_pc' = "loop"
    /\ UNCHANGED <<cl_vars, ix_vars, rg_vars, ch_vars, dc_vars>>

\* The loop always ends by the break of line 94 on these texts.
ScenarioNext == ScenarioCall \/ ChunkStep

----------------------------------------------------------------------------
\* OpenAIClient (openai_utils.py) and EmbeddingService.generate_chunk_embeddings
\* (embedding_service.py).

max_retries == 3     \* OpenAIClient.max_retries
base_delay == 1      \* OpenAIClient.base_delay (1.0, in time units)
batch_size == 100    \* get_embeddings_batch: batch_size

\* What the provider answers, per attempt: a response, openai.RateLimitError,
\* another openai.APIError, or any other exception.
Failures == {"rate_limit", "api_error", "other"}

\* The i-th text / chunk of a call, and the provider's embedding of a text.
TextOf(i) == <<"text", i>>
Emb(t)    == <<"emb", t>>
ChatAnswer == <<"content", "usage">>

\* response.data of a successful embeddings call: one item per input, in order
ProviderEmbeddings(batch) == [j \in 1..Len(batch) |-> Emb(batch[j])]

\* 2 ** attempt
RECURSIVE Pow2(_)
Pow2(n) == IF n = 0 THEN 1 ELSE 2 * Pow2(n - 1)

\* lines 38/86/144: the wait after a rate-limit signal
RateLimitWaitFlat(attempt) == base_delay
RateLimitWait(attempt) == base_delay * Pow2(attempt)

\* lines 48, 54 / 96, 102 / 154, 160: the wait after any other error
FlatWait == base_delay

\* lines 41, 46, 52 (and their copies): if attempt == self.max_retries - 1
IsLastAttemptOffByOne(attempt) == attempt = max_retries
IsLastAttempt(attempt) == attempt = max_retries - 1

\* The sleep of an except branch (0: the branch does not sleep).  The
\* rate-limit branch sleeps before it tests for the last attempt, the two
\* other branches test first.
SleepAfter(kind, attempt) ==
    IF kind = "rate_limit" THEN RateLimitWait(attempt)
    ELSE IF IsLastAttempt(attempt) THEN 0 ELSE FlatWait

\* line 72: batch = texts[i:i + batch_size]
BatchOverlapping(texts, i) == Slice(texts, i, i + batch_size + 1)
Batch(texts, i) == Slice(texts, i, i + batch_size)

\* embedding_service.py lines 48-52: the embeddings are entered in
\* self.chunk_embeddings, chunk k of the call under id k, once
\* get_embeddings_batch has returned
StoreEarly(store, embeddings, returned) ==
    [k \in (DOMAIN store) \cup (1..Len(embeddings)) |->
        IF k \in 1..Len(embeddings) THEN embeddings[k] ELSE store[k]]
ServiceStore(store, embeddings, returned) ==
    IF returned
    THEN [k \in (DOMAIN store) \cup (1..Len(embeddings)) |->
            IF k \in 1..Len(embeddings) THEN embeddings[k] ELSE store[k]]
    ELSE store

ClientInit ==
    /\ cl_op = "none" /\ cl_pc = "idle" /\ cl_texts = <<>>
    /\ cl_i = 0 /\ cl_attempt = 0 /\ cl_log = <<>> /\ cl_sent = {}
    /\ all_embeddings = <<>> /\ cl_result = <<>> /\ cl_error = "none"
    /\ es_chunk_embeddings = <<>>

\* get_embedding(text), lines 18-29
CallGetEmbedding ==
    /\ cl_pc = "idle"
    /\ cl_op' = "get_embedding" /\ cl_pc' = "try"
    /\ cl_texts' = <<TextOf(0)>>
    /\ UNCHANGED <<cl_i, cl_attempt, cl_log, cl_sent, all_embeddings,
                   cl_result, cl_error, es_chunk_embeddings>>
    /\ UNCHANGED <<ck_vars, ix_vars, rg_vars, ch_vars, dc_vars>>

\* chat_completion(messages), lines 106-125
CallChatCompletion ==
    /\ cl_pc = "idle"
    /\ cl_op' = "chat_completion" /\ cl_pc' = "try"
    /\ cl_texts' = <<TextOf(0)>>
    /\ UNCHANGED <<cl_i, cl_attempt, cl_log, cl_sent, all_embeddings,
                   cl_result, cl_error, es_chunk_embeddings>>
    /\ UNCHANGED <<ck_vars, ix_vars, rg_vars, ch_vars, dc_vars>>

\* generate_chunk_embeddings(chunks) with n chunks, embedding_service.py lines
\* 31-46, into get_embeddings_batch, openai_utils.py lines 68-74.  No chunk:
\* {} is returned at once; range(0, len(texts), batch_size) is not empty
\* otherwise.
CallGenerateChunkEmbeddings ==
    /\ cl_pc = "idle"
    /\ \E n \in 0..MaxTexts :
        /\ cl_texts' = [k \in 1..n |-> TextOf(k)]
        /\ cl_pc' = IF n = 0 THEN "returned" ELSE "try"
    /\ cl_op' = "get_embeddings_batch"
    /\ UNCHANGED <<cl_i, cl_attempt, cl_log, cl_sent, all_embeddings,
                   cl_result, cl_error, es_chunk_embeddings>>
    /\ UNCHANGED <<ck_vars, ix_vars, rg_vars, ch_vars, dc_vars>>

\* The provider call of the current attempt, entered in the log.
Logged(outcome, wait) ==
    LET entry == [batch |-> cl_i, attempt |-> cl_attempt,
                  outcome |-> outcome, wait |-> wait]
    IN  IF cl_attempt = 0 THEN <<entry>> ELSE Append(cl_log, entry)

\* get_embeddings_batch after the inner loop for the sub-batch at cl_i is
\* over, with `all` accumulated: the next sub-batch (line 71), or line 104
\* and, back in generate_chunk_embeddings, lines 48-57.
AfterSubBatch(all) ==
    /\ all_embeddings' = all
    /\ cl_error' = cl_error
    /\ IF cl_i + batch_size < Len(cl_texts)
       THEN /\ cl_i' = cl_i + batch_size
            /\ cl_attempt' = 0
            /\ cl_pc' = "try"
            /\ cl_result' = cl_result
            /\ es_chunk_embeddings' = ServiceStore(es_chunk_embeddings, all, FALSE)
       ELSE /\ cl_pc' = "returned"
            /\ cl_result' = all
            /\ es_chunk_embeddings' = ServiceStore(es_chunk_embeddings, all, TRUE)
            /\ UNCHANGED <<cl_i, cl_attempt>>

\* The try body: the provider answers (lines 31-35, 76-83, 127-141).
AttemptSucceeds ==
    /\ cl_pc = "try"
    /\ cl_log' = Logged("ok", 0)
    /\ cl_sent' = cl_sent \cup {cl_i}
    /\ IF cl_op = "get_embeddings_batch"
       THEN AfterSubBatch(all_embeddings \o ProviderEmbeddings(Batch(cl_texts, cl_i)))
       ELSE /\ cl_pc' = "returned"
            /\ cl_result' = IF cl_op = "get_embedding"
                            THEN Emb(cl_texts[1]) ELSE ChatAnswer
            /\ UNCHANGED <<cl_i, cl_attempt, all_embeddings, cl_error,
                           es_chunk_embeddings>>
    /\ UNCHANGED <<cl_op, cl_texts>>
    /\ UNCHANGED <<ck_vars, ix_vars, rg_vars, ch_vars, dc_vars>>

\* An except branch: the provider call raised an error of class `kind`.
AttemptFails(kind) ==
    /\ cl_pc = "try"
    /\ cl_log' = Logged(kind, SleepAfter(kind, cl_attempt))
    /\ cl_sent' = cl_sent \cup {cl_i}
    /\ IF IsLastAttempt(cl_attempt)
       THEN \* raise
            /\ cl_pc' = "raised"
            /\ cl_error' = kind
            /\ UNCHANGED <<cl_i, cl_attempt, all_embeddings, cl_result,
                           es_chunk_embeddings>>
       ELSE IF cl_attempt + 1 < max_retries
       THEN \* the next attempt
            /\ cl_attempt' = cl_attempt + 1
            /\ UNCHANGED <<cl_pc, cl_i, all_embeddings, cl_result, cl_error,
                           es_chunk_embeddings>>
       ELSE \* range(self.max_retries) is used up and nothing was raised
            IF cl_op = "get_embeddings_batch"
            THEN AfterSubBatch(all_embeddings)
            ELSE /\ cl_pc' = "fell_through"
                 /\ UNCHANGED <<cl_i, cl_attempt, all_embeddings, cl_result,
                                cl_error, es_chunk_embeddings>>
    /\ UNCHANGED <<cl_op, cl_texts>>
    /\ UNCHANGED <<ck_vars, ix_vars, rg_vars, ch_vars, dc_vars>>

\* except openai.RateLimitError (lines 37-42, 85-90, 143-148)
AttemptRateLimited == AttemptFails("rate_limit")
\* except openai.APIError (lines 44-48, 92-96, 150-154)
AttemptAPIError == AttemptFails("api_error")
\* except Exception (lines 50-54, 98-102, 156-160)
AttemptUnexpectedError == AttemptFails("other")

ClientNext ==
    \/ CallGetEmbedding \/ CallChatCompletion \/ CallGenerateChunkEmbeddings
    \/ AttemptSucceeds
    \/ AttemptRateLimited \/ AttemptAPIError \/ AttemptUnexpectedError

----------------------------------------------------------------------------
\* VectorService (vector_service.py).

\* The documents whose chunks are added, each with the file name it was
\* uploaded under (document_upload.py lines 70-74).
Docs == {"d1", "d2"}
FileName(doc) == IF doc = "d1" THEN "a.pdf" ELSE "b.pdf"

\* The embeddings tried: a zero vector, a vector of dimension 1, and vectors
\* of dimension 2 in three directions, <<1, 0>> being of unit length already.
AddVectors == {<<0, 0>>, <<2>>, <<1, 0>>, <<0, 2>>, <<1, 1>>}

\* Per chunk of a call: no entry in `embeddings`, or one of the vectors.
EmbeddingOptions ==
    {[has |-> FALSE, vec |-> <<>>]} \cup {[has |-> TRUE, vec |-> v] : v \in AddVectors}

RECURSIVE Gcd(_, _)
Gcd(a, b) == IF b = 0 THEN a ELSE Gcd(b, a % b)
RECURSIVE GcdSeq(_)
GcdSeq(v) == IF v = <<>> THEN 0 ELSE Gcd(v[1], GcdSeq(Tail(v)))
RECURSIVE SumSq(_)
SumSq(v) == IF v = <<>> THEN 0 ELSE v[1] * v[1] + SumSq(Tail(v))

\* np.linalg.norm(embedding) > 0 (line 72-73), on the square of the norm
NormPositive(v) == SumSq(v) > 0

\* np.array(embedding) / norm (line 74).  The unit vector of direction v is
\* held as the shortest integer vector p of that direction (it is
\* p / |p|), so that two embeddings have the same normalized vector exactly
\* when they have the same direction.
Normalize(v) == [j \in DOMAIN v |-> v[j] \div GcdSeq(v)]

\* lines 65-80: the chunks that are kept (valid_chunks)
ValidChunksUntilSkip(cks, embeddings) ==
    LET ok(c) == c.id \in DOMAIN embeddings /\ NormPositive(embeddings[c.id])
        bad == {j \in 1..Len(cks) : ~ok(cks[j])}
    IN  IF bad = {} THEN cks
        ELSE SubSeq(cks, 1, (CHOOSE j \in bad : \A k \in bad : j <= k) - 1)
ValidChunks(cks, embeddings) ==
    SelectSeq(cks, LAMBDA c :
        c.id \in DOMAIN embeddings /\ NormPositive(embeddings[c.id]))

\* lines 65-80: their normalized vectors (embedding_vectors)
EmbeddingVectors(valid, embeddings) ==
    [j \in 1..Len(valid) |-> Normalize(embeddings[valid[j].id])]

\* line 87: np.array(embedding_vectors, dtype=np.float32) raises ValueError
\* unless all rows have one length
MatrixOk(vectors) == \A j \in 1..Len(vectors) : Len(vectors[j]) = Len(vectors[1])

\* line 90: if self.index is None
NeedsNewIndexOrOtherDim(index, d) == ~index.live \/ index.d # d
NeedsNewIndex(index, d) == ~index.live

\* line 95: self.index.add(embeddings_matrix) raises unless the rows have
\* the dimension of the index
IndexAddOk(index, d) == index.d = d

NoIndex == [live |-> FALSE, d |-> 0, vecs |-> <<>>]
NoFile == [exists |-> FALSE]
EmptyMap == <<>>
NoCall == [op |-> "none", chunks |-> <<>>, embeddings |-> EmptyMap,
           document_name |-> "", result |-> FALSE]
NoSearch == [called |-> FALSE]

\* lines 98-101: the metadata and the document names after valid chunks were
\* added from slot start_idx on
MetadataAfter(meta, start_idx, valid) ==
    [k \in (DOMAIN meta) \cup (start_idx..(start_idx + Len(valid) - 1)) |->
        IF k >= start_idx /\ k < start_idx + Len(valid)
        THEN valid[k - start_idx + 1] ELSE meta[k]]
NamesAfter(names, valid, name) ==
    LET docs == {valid[j].document_id : j \in 1..Len(valid)}
    IN  [doc \in (DOMAIN names) \cup docs |->
            IF doc \in docs THEN name ELSE names[doc]]

\* uuid4 ids of new chunks: ids that no chunk held by the service has
UsedIds == {chunk_metadata[k].id : k \in DOMAIN chunk_metadata}
RECURSIVE FreshIds(_, _)
FreshIds(n, from) ==
    IF n = 0 THEN <<>>
    ELSE IF from \in UsedIds THEN FreshIds(n, from + 1)
    ELSE <<from>> \o FreshIds(n - 1, from + 1)

\* VectorService.__init__ with no persisted index (load_index finds no file)
IndexInit ==
    /\ ix_index = NoIndex
    /\ chunk_metadata = EmptyMap
    /\ document_names = EmptyMap
    /\ dk_index = NoFile
    /\ dk_meta = NoFile
    /\ ix_call = NoCall
    /\ sr_call = NoSearch

\* create_index(embedding_dimension), lines 33-40
create_index ==
    /\ \E d \in 1..MaxDim : ix_index' = [live |-> TRUE, d |-> d, vecs |-> <<>>]
    /\ chunk_metadata' = EmptyMap
    /\ document_names' = EmptyMap
    /\ ix_call' = [NoCall EXCEPT !.op = "create_index"]
    /\ sr_call' = NoSearch
    /\ UNCHANGED <<dk_index, dk_meta>>
    /\ UNCHANGED <<ck_vars, cl_vars, rg_vars, ch_vars, dc_vars>>

\* add_embeddings(chunks, embeddings, document_name) on the state given, lines
\* 59-109: the result and the index, metadata and names it leaves.
AddOutcome(cks, embeddings, name) ==
    LET valid   == ValidChunks(cks, embeddings)
        vectors == EmbeddingVectors(valid, embeddings)
        same    == [result |-> FALSE, index |-> ix_index,
                    meta |-> chunk_metadata, names |-> document_names]
    IN  IF cks = <<>> \/ DOMAIN embeddings = {} THEN same        \* lines 60-62
        ELSE IF vectors = <<>> THEN same                         \* lines 82-84
        ELSE IF ~MatrixOk(vectors) THEN same                     \* line 87 raises
        ELSE
          LET d     == Len(vectors[1])
              fresh == NeedsNewIndex(ix_index, d)                \* lines 90-91
              index == IF fresh THEN [live |-> TRUE, d |-> d, vecs |-> <<>>]
                                ELSE ix_index
              meta  == IF fresh THEN EmptyMap ELSE chunk_metadata
              names == IF fresh THEN EmptyMap ELSE document_names
          IN  IF ~IndexAddOk(index, d)                           \* line 95 raises
              THEN [same EXCEPT !.index = index, !.meta = meta, !.names = names]
              ELSE [result |-> TRUE,
                    index  |-> [index EXCEPT !.vecs = @ \o vectors],
                    meta   |-> MetadataAfter(meta, Len(index.vecs), valid),
                    names  |-> NamesAfter(names, valid, name)]

\* One call add_embeddings(chunks, embeddings, document_name): the chunks are
\* n new chunks of document doc, and opts says for each of them whether
\* `embeddings` has an entry for it and which.
AddCall(doc, n, opts) ==
    \E ids \in {FreshIds(n, 0)} :
        \* cap on the size of the index
        /\ Len(ix_index.vecs) + n <= MaxVectors
        /\ LET cks == [j \in 1..n |-> [id |-> ids[j], document_id |-> doc]]
               embeddings == [i \in {ids[j] : j \in {k \in 1..n : opts[k].has}} |->
                                opts[CHOOSE j \in 1..n : ids[j] = i].vec]
           IN  \E out \in {AddOutcome(cks, embeddings, FileName(doc))} :
                 /\ ix_index' = out.index
                 /\ chunk_metadata' = out.meta
                 /\ document_names' = out.names
                 /\ ix_call' = [op |-> "add_embeddings", chunks |-> cks,
                                embeddings |-> embeddings,
                                document_name |-> FileName(doc),
                                result |-> out.result]
        /\ sr_call' = NoSearch
        /\ UNCHANGED <<dk_index, dk_meta>>
        /\ UNCHANGED <<ck_vars, cl_vars, rg_vars, ch_vars, dc_vars>>

add_embeddings ==
    \E doc \in Docs, n \in 0..MaxAdd :
      \E opts \in [1..n -> EmbeddingOptions] : AddCall(doc, n, opts)

\* clear_index() with the files fi and fm on disk, lines 233-244: what the
\* service holds and what is on disk afterwards, and whether a file was
\* there to remove (lines 240-242).
ClearKeepsFiles(fi, fm) ==
    [index |-> NoIndex, meta |-> EmptyMap, names |-> EmptyMap,
     fi |-> fi, fm |-> fm, removed |-> FALSE]
ClearOutcome(fi, fm) ==
    [index |-> NoIndex, meta |-> EmptyMap, names |-> EmptyMap,
     fi |-> NoFile, fm |-> NoFile, removed |-> fi.exists \/ fm.exists]

clear_index ==
    \E out \in {ClearOutcome(dk_index, dk_meta)} :
        /\ ix_index' = out.index
        /\ chunk_metadata' = out.meta
        /\ document_names' = out.names
        /\ dk_index' = out.fi
        /\ dk_meta' = out.fm
        /\ ix_call' = [NoCall EXCEPT !.op = "clear_index",
                                     !.result = out.removed]
        /\ sr_call' = NoSearch
        /\ UNCHANGED <<ck_vars, cl_vars, rg_vars, ch_vars, dc_vars>>

IndexNext == create_index \/ add_embeddings \/ clear_index

----------------------------------------------------------------------------
\* VectorService: search (vector_service.py lines 111-182).

\* The query embeddings tried: a zero vector, a vector of dimension 1, and
\* vectors of dimension 2, <<9, 1>> being ten times [0.9, 0.1].
QueryVectors == {<<0, 0>>, <<2>>, <<1, 0>>, <<1, 1>>, <<9, 1>>}

\* query.top_k: none, fewer than the index can hold, as many
TopKs == {0, 1, 2}

\* query.relevance_threshold as a fraction n / m: 0.0 (the default of
\* SearchQuery), 0.1 (the value RAGService passes) and 1.0
Thresholds == {[n |-> 0, m |-> 1], [n |-> 1, m |-> 10], [n |-> 1, m |-> 1]}

RECURSIVE Dot(_, _)
Dot(x, y) == IF x = <<>> THEN 0 ELSE x[1] * y[1] + Dot(Tail(x), Tail(y))

\* lines 135-138: the query is normalized when its norm is positive
QueryVector(q) == IF NormPositive(q) THEN Normalize(q) ELSE q

\* The inner product of a stored unit vector and the query vector, both
\* held by direction (x / |x| and y / |y|): the number dot / sqrt(sq).
Score(x, y) == [dot |-> Dot(x, y), sq |-> SumSq(x) * SumSq(y)]
Den(a) == IF a.sq = 0 THEN 1 ELSE a.sq

\* a <= b as numbers (no component of a vector of the model is negative)
ScoreLeq(a, b) == a.dot * a.dot * Den(b) <= b.dot * b.dot * Den(a)

\* The index holds float32: a unit vector along an axis is held exactly and
\* scores 1.0 against itself, while the components 1/sqrt(k), k >= 2, of a
\* diagonal direction are rounded (float32(1/sqrt 2) = 0.70710677) and the
\* inner product of the vector with itself is 0.99999994, one unit in the
\* last place below 1.0.
SelfScoreShort(a) == a.dot * a.dot = a.sq /\ a.sq > 1

\* line 152: score >= query.relevance_threshold
AtLeast(a, t) ==
    IF a.sq > 0 /\ a.dot * a.dot = a.sq /\ t.n = t.m
    THEN ~SelfScoreShort(a)
    ELSE a.dot * a.dot * t.m * t.m >= t.n * t.n * Den(a)

\* lines 141-144: index.search(query_vector, k) gives the k slots of highest
\* inner product, best first; the order among equal scores is the library's.
Rankings(index, qv, k) ==
    LET n == Len(index.vecs)
        sc(slot) == Score(index.vecs[slot + 1], qv)
    IN  {r \in [1..k -> 0..(n - 1)] :
            /\ \A i, j \in 1..k : i # j => r[i] # r[j]
            /\ \A i \in 1..(k - 1) : ScoreLeq(sc(r[i + 1]), sc(r[i]))
            /\ \A slot \in 0..(n - 1) :
                  (\A i \in 1..k : r[i] # slot) => ScoreLeq(sc(slot), sc(r[k]))}

\* lines 146-162: the results built from a ranking
ResultsOf(index, meta, names, qv, t, r) ==
    LET keep == SelectSeq(r, LAMBDA slot :
                    /\ AtLeast(Score(index.vecs[slot + 1], qv), t)  \* line 152
                    /\ slot \in DOMAIN meta)                        \* line 154
    IN  [i \in 1..Len(keep) |->
            [chunk |-> meta[keep[i]],
             relevance_score |-> Score(index.vecs[keep[i] + 1], qv),
             document_name |->
                 IF meta[keep[i]].document_id \in DOMAIN names
                 THEN names[meta[keep[i]].document_id] ELSE "Unknown"]]

\* lines 125-132: the response on an index that is None or holds no vector
SearchEmpty ==
    [results |-> <<>>, total_results |-> 0, search_time |-> "zero",
     raised |-> FALSE]

\* lines 175-182: the response when a step of the search raised
SearchFailedRaises ==
    [results |-> <<>>, total_results |-> 0, search_time |-> "elapsed",
     raised |-> TRUE]
SearchFailed ==
    [results |-> <<>>, total_results |-> 0, search_time |-> "elapsed",
     raised |-> FALSE]

\* line 141: index.search asserts that the query has the dimension of the
\* index and that k > 0, and raises otherwise
SearchRaises(index, q, top_k) ==
    Len(q) # index.d \/ Min(top_k, Len(index.vecs)) <= 0

\* search(query_embedding, query): the responses it can give on a state.
SearchOutcomes(index, meta, names, q, top_k, t) ==
    IF ~index.live \/ Len(index.vecs) = 0 THEN {SearchEmpty}
    ELSE IF SearchRaises(index, q, top_k) THEN {SearchFailed}
    ELSE {[results |-> res, total_results |-> Len(res),
           search_time |-> "elapsed", raised |-> FALSE] :
            res \in {ResultsOf(index, meta, names, QueryVector(q), t, r) :
                       r \in Rankings(index, QueryVector(q),
                                      Min(top_k, Len(index.vecs)))}}

search ==
    \E q \in QueryVectors, top_k \in TopKs, t \in Thresholds :
      \E resp \in SearchOutcomes(ix_index, chunk_metadata, document_names,
                                 q, top_k, t) :
        /\ sr_call' = [called |-> TRUE, query_embedding |-> q, top_k |-> top_k,
                       relevance_threshold |-> t, response |-> resp]
        /\ ix_call' = [NoCall EXCEPT !.op = "search"]
        /\ UNCHANGED <<ix_index, chunk_metadata, document_names,
                       dk_index, dk_meta>>
        /\ UNCHANGED <<ck_vars, cl_vars, rg_vars, ch_vars, dc_vars>>

----------------------------------------------------------------------------
\* VectorService: persistence (vector_service.py lines 184-231).

\* What faiss.write_index leaves at index_path and what pickle.dump leaves
\* at metadata_path; a file whose writing was interrupted cannot be read.
IndexBlob(index) ==
    [exists |-> TRUE, readable |-> TRUE, d |-> index.d, vecs |-> index.vecs]
MetaBlobWithoutNames(meta, names) ==
    [exists |-> TRUE, readable |-> TRUE, chunk_metadata |-> meta,
     document_names |-> EmptyMap]
MetaBlob(meta, names) ==
    [exists |-> TRUE, readable |-> TRUE, chunk_metadata |-> meta,
     document_names |-> names]
Unreadable == [exists |-> TRUE, readable |-> FALSE]

\* faiss.read_index on a readable file
ReadIndex(file) == [live |-> TRUE, d |-> file.d, vecs |-> file.vecs]

\* Where a save_index call can fail: nowhere, while faiss.write_index writes
\* the index file, when the metadata file is opened, or while pickle.dump
\* writes it.
SaveFaults == {"none", "write_index", "open_metadata", "dump"}

\* save_index(), lines 184-208
save_index ==
    \E fault \in SaveFaults :
        /\ IF ~ix_index.live                                     \* lines 187-189
           THEN /\ UNCHANGED <<dk_index, dk_meta>>
                /\ ix_call' = [NoCall EXCEPT !.op = "save_index"]
           ELSE /\ dk_index' = IF fault = "write_index" THEN Unreadable
                               ELSE IndexBlob(ix_index)          \* line 192
                /\ dk_meta' =
                     CASE fault = "none" ->
                            MetaBlob(chunk_metadata, document_names)
                       [] fault = "dump" -> Unreadable           \* lines 200-201
                       [] OTHER -> dk_meta
                /\ ix_call' = [NoCall EXCEPT !.op = "save_index",
                                             !.result = (fault = "none")]
        /\ sr_call' = NoSearch
        /\ UNCHANGED <<ix_index, chunk_metadata, document_names>>
        /\ UNCHANGED <<ck_vars, cl_vars, rg_vars, ch_vars, dc_vars>>

\* load_index() on a service that holds index, meta and names, with the
\* files fi and fm on disk (lines 210-231): the result and what it leaves.
LoadOutcome(fi, fm, index, meta, names) ==
    LET same == [result |-> FALSE, index |-> index, meta |-> meta,
                 names |-> names]
    IN  IF ~fi.exists \/ ~fm.exists THEN same                    \* lines 213-215
        ELSE IF ~fi.readable THEN same                           \* line 218 raises
        ELSE IF ~fm.readable                                     \* line 222 raises
        THEN [same EXCEPT !.index = ReadIndex(fi)]
        ELSE [result |-> TRUE, index |-> ReadIndex(fi),
              meta |-> fm.chunk_metadata, names |-> fm.document_names]

load_index ==
    \E out \in {LoadOutcome(dk_index, dk_meta, ix_index, chunk_metadata,
                            document_names)} :
        /\ ix_index' = out.index
        /\ chunk_metadata' = out.meta
        /\ document_names' = out.names
        /\ ix_call' = [NoCall EXCEPT !.op = "load_index", !.result = out.result]
        /\ sr_call' = NoSearch
        /\ UNCHANGED <<dk_index, dk_meta>>
        /\ UNCHANGED <<ck_vars, cl_vars, rg_vars, ch_vars, dc_vars>>

\* A fresh VectorService over the same directory: __init__, lines 19-31
FreshService(fi, fm) == LoadOutcome(fi, fm, NoIndex, EmptyMap, EmptyMap)

new_service ==
    \E out \in {FreshService(dk_index, dk_meta)} :
        /\ ix_index' = out.index
        /\ chunk_metadata' = out.meta
        /\ document_names' = out.names
        /\ ix_call' = [NoCall EXCEPT !.op = "__init__", !.result = out.result]
        /\ sr_call' = NoSearch
        /\ UNCHANGED <<dk_index, dk_meta>>
        /\ UNCHANGED <<ck_vars, cl_vars, rg_vars, ch_vars, dc_vars>>

\* add_embeddings for one chunk of a document with an embedding v
AddOne(docs, vectors) ==
    \E doc \in docs, v \in vectors :
        AddCall(doc, 1, <<[has |-> TRUE, vec |-> v]>>)

\* add_embeddings as the upload page calls it (document_upload.py lines
\* 54-74) for a document of one chunk: the chunk comes with the embedding
\* the embedding model gave it, a non-zero vector of the model's dimension.
ModelVectors == {<<1, 0>>, <<0, 2>>}
add_document == AddOne(Docs, ModelVectors)

\* add_embeddings for one chunk of the first document, with any of the
\* embeddings of AddVectors
add_chunk == AddOne({"d1"}, AddVectors)

SearchNext == create_index \/ add_chunk \/ clear_index \/ search

StoreNext ==
    \/ create_index \/ add_document \/ clear_index
    \/ save_index \/ load_index \/ new_service

----------------------------------------------------------------------------
\* RAGService.generate_response (rag_service.py lines 33-139).

retrieval_count == 5     \* Settings.retrieval_count, the top_k of the search

\* relevance_threshold=0.1 (line 61)
RagThreshold == [n |-> 1, m |-> 10]

NoResponse == [returned |-> FALSE]

\* The conversation_history of a request: None, or a list of role/content
\* pairs, the i-th of them being Turn(i).
NoHistory == [given |-> FALSE, turns |-> <<>>]
Turn(i) ==
    [role |-> IF i % 2 = 1 THEN "user" ELSE "assistant", content |-> <<"turn", i>>]
Histories ==
    {NoHistory} \cup
    {[given |-> TRUE, turns |-> [i \in 1..n |-> Turn(i)]] : n \in 0..MaxHistory}

\* conversation_history[-6:] (line 99): the last 6 entries, all of them when
\* there are fewer
LastSixFromFront(turns) == SubSeq(turns, 1, Min(6, Len(turns)))
LastSix(turns) == SubSeq(turns, Max(1, Len(turns) - 5), Len(turns))

\* _build_context_text (lines 141-153): one part per retrieved chunk, or the
\* fixed sentence when nothing was retrieved
ContextText(results) ==
    IF results = <<>> THEN <<"No relevant context found">>
    ELSE [i \in 1..Len(results) |->
            [document |-> results[i].document_name,
             score |-> results[i].relevance_score,
             content |-> results[i].chunk.id]]

\* lines 93-109: the messages for the model
SystemMessage == [role |-> "system", content |-> <<"system_prompt">>]
UserMessage(results) ==
    [role |-> "user",
     content |-> <<"context", ContextText(results), "question", "query">>]
Messages(history, results) ==
    <<SystemMessage>>
    \o (IF history.given /\ history.turns # <<>>
        THEN LastSix(history.turns) ELSE <<>>)
    \o <<UserMessage(results)>>

RagInit ==
    /\ rg_pc = "idle"
    /\ conversation_history = NoHistory
    /\ messages = <<>>
    /\ rg_search = NoSearch
    /\ rg_response = NoResponse

\* generate_response(query, conversation_history) is entered, line 48
generate_response ==
    /\ rg_pc = "idle" /\ cl_pc = "idle"
    /\ rg_pc' = "embedding"
    /\ conversation_history' \in Histories
    /\ UNCHANGED <<messages, rg_search, rg_response>>
    /\ UNCHANGED <<ck_vars, cl_vars, ix_vars, ch_vars, dc_vars>>

\* step 1, lines 52-55: self.openai_client.get_embedding(text=query, ...)
rag_get_embedding == rg_pc = "embedding" /\ CallGetEmbedding

\* The OpenAIClient call is over: its locals are gone.
ClientReturns ==
    /\ cl_op' = "none" /\ cl_pc' = "idle" /\ cl_texts' = <<>>
    /\ cl_i' = 0 /\ cl_attempt' = 0 /\ cl_log' = <<>> /\ cl_sent' = {}
    /\ all_embeddings' = <<>> /\ cl_result' = <<>> /\ cl_error' = "none"
    /\ UNCHANGED es_chunk_embeddings

\* steps 2-5, lines 57-109: get_embedding has returned an embedding q and
\* vector_service.search(q, SearchQuery(top_k=retrieval_count,
\* relevance_threshold=0.1)) gives its response; `failed` says whether the
\* search went through its except branch.  Context, citations and messages
\* are built from the response.
rag_search_after_failed_embedding ==
    /\ rg_pc = "embedding" /\ cl_pc \in {"returned", "raised"}
    /\ cl_op = "get_embedding"
    /\ \E q \in QueryVectors :
         \E resp \in SearchOutcomes(ix_index, chunk_metadata, document_names,
                                    q, retrieval_count, RagThreshold) :
            /\ rg_search' =
                [called |-> TRUE, query_embedding |-> q, response |-> resp,
                 failed |-> /\ ix_index.live /\ Len(ix_index.vecs) > 0
                            /\ SearchRaises(ix_index, q, retrieval_count)]
            /\ messages' = Messages(conversation_history, resp.results)
    /\ rg_pc' = "completion"
    /\ ClientReturns
    /\ UNCHANGED <<conversation_history, rg_response>>
    /\ UNCHANGED <<ck_vars, ix_vars, ch_vars, dc_vars>>
rag_search ==
    /\ rg_pc = "embedding" /\ cl_pc = "returned" /\ cl_op = "get_embedding"
    /\ \E q \in QueryVectors :
         \E resp \in SearchOutcomes(ix_index, chunk_metadata, document_names,
                                    q, retrieval_count, RagThreshold) :
            /\ rg_search' =
                [called |-> TRUE, query_embedding |-> q, response |-> resp,
                 failed |-> /\ ix_index.live /\ Len(ix_index.vecs) > 0
                            /\ SearchRaises(ix_index, q, retrieval_count)]
            /\ messages' = Messages(conversation_history, resp.results)
    /\ rg_pc' = "completion"
    /\ ClientReturns
    /\ UNCHANGED <<conversation_history, rg_response>>
    /\ UNCHANGED <<ck_vars, ix_vars, ch_vars, dc_vars>>

\* step 6, lines 112-117: self.openai_client.chat_completion(messages, ...)
\* is called
rag_chat_completion == rg_pc = "completion" /\ CallChatCompletion

\* lines 78-87: one citation per search result
Citations(results) ==
    [i \in 1..Len(results) |->
        [document_id |-> results[i].chunk.document_id,
         document_name |-> results[i].document_name,
         chunk_id |-> results[i].chunk.id,
         relevance_score |-> results[i].relevance_score]]

\* lines 119-128: chat_completion has returned; the answer is returned
rag_return ==
    /\ rg_pc = "completion" /\ cl_pc = "returned" /\ cl_op = "chat_completion"
    /\ rg_response' =
          [returned |-> TRUE, raised |-> FALSE, content |-> "response_text",
           sources |-> Citations(rg_search.response.results),
           response_time |-> "elapsed", token_usage |-> "usage"]
    /\ rg_pc' = "done"
    /\ UNCHANGED <<conversation_history, messages, rg_search>>
    /\ UNCHANGED <<ck_vars, cl_vars, ix_vars, ch_vars, dc_vars>>

\* lines 134-139: the ChatResponse of the except branch, the search of the
\* request having given `sr`
ExceptResponseKeepsSources(sr) ==
    [returned |-> TRUE, raised |-> FALSE, content |-> "apology",
     sources |-> IF sr.called THEN Citations(sr.response.results)
                 ELSE <<>>,
     response_time |-> "elapsed", token_usage |-> "none"]
ExceptResponse(sr) ==
    [returned |-> TRUE, raised |-> FALSE, content |-> "apology",
     sources |-> <<>>, response_time |-> "elapsed", token_usage |-> "none"]

\* lines 130-139: get_embedding or chat_completion has raised; except
\* Exception returns the apology
rag_except ==
    /\ rg_pc \in {"embedding", "completion"} /\ cl_pc = "raised"
    /\ rg_response' = ExceptResponse(rg_search)
    /\ rg_pc' = "done"
    /\ UNCHANGED <<conversation_history, messages, rg_search>>
    /\ UNCHANGED <<ck_vars, cl_vars, ix_vars, ch_vars, dc_vars>>

\* The index is built before the request is made: the pages of the
\* application run one after the other.
rag_create_index == rg_pc = "idle" /\ create_index
rag_add_chunk == rg_pc = "idle" /\ add_chunk

\* One request, on an index that chunks were added to.
RagNext ==
    \/ rag_create_index \/ rag_add_chunk
    \/ generate_response \/ rag_get_embedding \/ rag_search
    \/ rag_chat_completion \/ rag_return \/ rag_except
    \/ AttemptSucceeds
    \/ AttemptRateLimited \/ AttemptAPIError \/ AttemptUnexpectedError

----------------------------------------------------------------------------
\* ChatService (chat_service.py) and ConversationSession (conversation.py).

\* Session ids.  uuid4 gives Uuid(1), Uuid(2), ... ; a caller can pass None,
\* the empty string, a string that is no id of any session, or an id it has
\* seen.
NoneId == <<"none", 0>>
EmptyId == <<"str", 0>>
StrangerId == <<"str", 1>>
Uuid(k) == <<"uuid", k>>
SessionIdArgs == {NoneId, EmptyId, StrangerId} \cup {Uuid(k) : k \in 1..ch_uuids}

\* `if session_id:` (lines 51, 100, 122): None and "" are false
HasId(session_id) == session_id \notin {NoneId, EmptyId}

Extend(f, k, v) == [x \in (DOMAIN f) \cup {k} |-> IF x = k THEN v ELSE f[x]]
Without(f, k) == [x \in (DOMAIN f) \ {k} |-> f[x]]

\* ConversationSession.add_message (conversation.py lines 50-54); the id of
\* a message is its position in the session
add_message_in_front(msgs, content, role) ==
    <<[id |-> Len(msgs), role |-> role, content |-> content]>> \o msgs
add_message(msgs, content, role) ==
    Append(msgs, [id |-> Len(msgs), role |-> role, content |-> content])

\* ConversationSession.get_recent_messages (conversation.py lines 56-57):
\* self.messages[-count:] if self.messages else []
get_recent_messages(msgs, count) ==
    IF msgs # <<>> THEN SubSeq(msgs, Max(1, Len(msgs) - count + 1), Len(msgs))
    ELSE <<>>

\* lines 63-70: the role/content pairs of recent_messages[:-1]
ConversationHistory(msgs) ==
    LET recent == get_recent_messages(msgs, 10)
    IN  [j \in 1..(Len(recent) - 1) |->
            [role |-> recent[j].role, content |-> recent[j].content]]

\* What rag_service.generate_response does with a request: it returns the
\* answer, it returns its apology, or an exception leaves it (ChatService
\* is written for that case too, lines 84-96).
RagOutcomes == {"response_text", "apology", "raised"}

\* lines 88 and 135: the texts the two services put in a response
ErrorResponse == <<"error", 0>>
ResponseContent(outcome) ==
    IF outcome = "raised" THEN ErrorResponse ELSE <<outcome, 0>>

\* lines 58-96: the messages of the session after the call, from the
\* messages before it
SendSkipsFailedReply(msgs, message, outcome) ==
    IF outcome = "response_text"
    THEN add_message(add_message(msgs, message, "user"),
                     ResponseContent(outcome), "assistant")
    ELSE add_message(msgs, message, "user")
SendRepliesFirst(msgs, message, outcome) ==
    add_message(add_message(msgs, ResponseContent(outcome), "assistant"),
                message, "user")
SendMessages(msgs, message, outcome) ==
    add_message(add_message(msgs, message, "user"),
                ResponseContent(outcome), "assistant")

\* lines 82, 91-96: the ChatResponse that is returned
SendResponse(outcome) ==
    [content |-> ResponseContent(outcome),
     made_by |-> IF outcome = "raised" THEN "send_message" ELSE "rag_service"]

\* get_current_session, lines 32-37: is there a current session to return
HasCurrent ==
    current_session_id # NoneId /\ current_session_id \in DOMAIN sessions

\* lines 50-56 (send_message) and 122 (get_session_history with
\* get_current_session): the session the call works on; `new` says that
\* create_session makes it, under the next id of uuid4
Resolve(session_id) ==
    IF HasId(session_id) /\ session_id \in DOMAIN sessions
    THEN [id |-> session_id, new |-> FALSE]
    ELSE IF ~HasId(session_id) /\ HasCurrent
    THEN [id |-> current_session_id, new |-> FALSE]
    ELSE [id |-> Uuid(ch_uuids + 1), new |-> TRUE]

NoChatCall == [op |-> "none"]
Before == [sessions |-> sessions, current_session_id |-> current_session_id]

ChatInit ==
    /\ sessions = <<>> /\ current_session_id = NoneId
    /\ ch_uuids = 0 /\ ch_sent = 0 /\ ch_call = NoChatCall

\* create_session(), lines 19-26
create_session ==
    /\ ch_uuids < MaxSessions
    /\ sessions' = Extend(sessions, Uuid(ch_uuids + 1), <<>>)
    /\ current_session_id' = Uuid(ch_uuids + 1)
    /\ ch_uuids' = ch_uuids + 1
    /\ ch_call' = [op |-> "create_session", before |-> Before,
                   result |-> Uuid(ch_uuids + 1)]
    /\ UNCHANGED ch_sent
    /\ UNCHANGED <<ck_vars, cl_vars, ix_vars, rg_vars, dc_vars>>

\* send_message(message, session_id), lines 39-96; the message of the k-th
\* call is <<"msg", k>>
SendMessage(ids, limit) ==
    /\ ch_sent < limit
    /\ \E session_id \in ids, outcome \in RagOutcomes :
        \E r \in {Resolve(session_id)} :
          LET message == <<"msg", ch_sent>>
              msgs == IF r.new THEN <<>> ELSE sessions[r.id]
          IN  /\ r.new => ch_uuids < MaxSessions
              /\ sessions' = Extend(sessions, r.id,
                                    SendMessages(msgs, message, outcome))
              /\ current_session_id' =
                     IF r.new THEN r.id ELSE current_session_id
              /\ ch_uuids' = IF r.new THEN ch_uuids + 1 ELSE ch_uuids
              /\ ch_call' =
                     [op |-> "send_message", session_id |-> session_id,
                      message |-> message, before |-> Before,
                      session |-> r.id,
                      conversation_history |->
                          ConversationHistory(add_message(msgs, message, "user")),
                      outcome |-> outcome,
                      result |-> SendResponse(outcome)]
    /\ ch_sent' = ch_sent + 1
    /\ UNCHANGED <<ck_vars, cl_vars, ix_vars, rg_vars, dc_vars>>

\* send_message with any session_id
send_message == SendMessage(SessionIdArgs, MaxSends)

\* send_message(prompt), as the chat page calls it (chat_interface.py line
\* 53): one conversation in the current session
send_prompt == SendMessage({NoneId}, MaxTurns)

\* clear_session(session_id), lines 98-112: sessions, current session and
\* return value after the call
ClearReportsFound(sess, cur, session_id) ==
    [sessions |-> Without(sess, session_id),
     current_session_id |-> IF cur = session_id THEN NoneId ELSE cur,
     result |-> TRUE]
ClearKeepsCurrent(sess, cur, session_id) ==
    IF session_id \in DOMAIN sess
    THEN [sessions |-> Without(sess, session_id),
          current_session_id |-> cur, result |-> TRUE]
    ELSE [sessions |-> sess, current_session_id |-> cur, result |-> FALSE]
ClearById(sess, cur, session_id) ==
    IF session_id \in DOMAIN sess
    THEN [sessions |-> Without(sess, session_id),
          current_session_id |-> IF cur = session_id THEN NoneId ELSE cur,
          result |-> TRUE]
    ELSE [sessions |-> sess, current_session_id |-> cur, result |-> FALSE]
ClearSession(sess, cur, session_id) ==
    IF HasId(session_id) THEN ClearById(sess, cur, session_id)
    ELSE IF cur # NoneId THEN ClearById(sess, cur, cur)
    ELSE [sessions |-> sess, current_session_id |-> cur, result |-> FALSE]

clear_session ==
    \E session_id \in SessionIdArgs :
      \E out \in {ClearSession(sessions, current_session_id, session_id)} :
        /\ sessions' = out.sessions
        /\ current_session_id' = out.current_session_id
        /\ ch_call' = [op |-> "clear_session", session_id |-> session_id,
                       before |-> Before, result |-> out.result]
        /\ UNCHANGED <<ch_uuids, ch_sent>>
        /\ UNCHANGED <<ck_vars, cl_vars, ix_vars, rg_vars, dc_vars>>

\* clear_all_sessions(), lines 114-118
ClearAll(sess, cur) == [sessions |-> <<>>, current_session_id |-> NoneId]
clear_all_sessions ==
    \E out \in {ClearAll(sessions, current_session_id)} :
        /\ sessions' = out.sessions
        /\ current_session_id' = out.current_session_id
        /\ ch_call' = [op |-> "clear_all_sessions", before |-> Before]
        /\ UNCHANGED <<ch_uuids, ch_sent>>
        /\ UNCHANGED <<ck_vars, cl_vars, ix_vars, rg_vars, dc_vars>>

\* get_session_history(session_id), lines 120-123: get_session with an id,
\* get_current_session (which may create a session) without one
get_session_history ==
    \E session_id \in SessionIdArgs :
      \E r \in {Resolve(session_id)} :
        IF HasId(session_id)
        THEN /\ ch_call' =
                    [op |-> "get_session_history", session_id |-> session_id,
                     before |-> Before,
                     result |-> IF session_id \in DOMAIN sessions
                                THEN sessions[session_id] ELSE <<>>]
             /\ UNCHANGED <<sessions, current_session_id, ch_uuids, ch_sent>>
             /\ UNCHANGED <<ck_vars, cl_vars, ix_vars, rg_vars, dc_vars>>
        ELSE /\ r.new => ch_uuids < MaxSessions
             /\ sessions' = IF r.new THEN Extend(sessions, r.id, <<>>)
                            ELSE sessions
             /\ current_session_id' =
                    IF r.new THEN r.id ELSE current_session_id
             /\ ch_uuids' = IF r.new THEN ch_uuids + 1 ELSE ch_uuids
             /\ ch_call' =
                    [op |-> "get_session_history", session_id |-> session_id,
                     before |-> Before,
                     result |-> IF r.new THEN <<>> ELSE sessions[r.id]]
             /\ UNCHANGED ch_sent
             /\ UNCHANGED <<ck_vars, cl_vars, ix_vars, rg_vars, dc_vars>>

ChatNext ==
    \/ create_session \/ send_message \/ clear_session
    \/ clear_all_sessions \/ get_session_history

ConversationNext == send_prompt

----------------------------------------------------------------------------
\* DocumentService (document_service.py) with validate_pdf_file and
\* extract_text_from_pdf (pdf_utils.py).

max_file_size == 52428800    \* Settings.max_file_size

\* The uploads tried.  A file name is a sequence of characters; the bytes
\* of a file are given by their number and by what PyPDF2 makes of them:
\* no PDF at all, a PDF without pages, a PDF whose pages cannot be walked
\* through, a PDF whose pages give no text, a PDF with text.
FileNames ==
    {<<"a", ".", "p", "d", "f">>, <<"A", ".", "P", "D", "F">>,
     <<"a", ".", "t", "x", "t">>, <<"p", "d", "f">>}
FileSizes == {1, max_file_size, max_file_size + 1}
FileContents ==
    {"corrupt", "no_pages", "broken_pages", "blank_pages", "text_pages"}
Uploads ==
    [filename : FileNames, size : FileSizes, content : FileContents]

\* str.lower() on the characters that occur
Lower(c) ==
    IF c = "A" THEN "a" ELSE IF c = "P" THEN "p" ELSE IF c = "D" THEN "d"
    ELSE IF c = "F" THEN "f" ELSE c
\* filename.lower().endswith('.pdf') (pdf_utils.py line 55)
EndsWithPdf(filename) ==
    /\ Len(filename) >= 4
    /\ [j \in 1..4 |-> Lower(filename[Len(filename) - 4 + j])]
           = <<".", "p", "d", "f">>

\* validate_pdf_file (pdf_utils.py lines 43-70): the error message, "none"
\* for None
validate_pdf_file(file) ==
    IF file.size > max_file_size THEN "File size exceeds maximum"
    ELSE IF ~EndsWithPdf(file.filename) THEN "File must be a PDF"
    ELSE IF file.content = "corrupt" THEN "Invalid or corrupted PDF file"
    ELSE IF file.content = "no_pages" THEN "PDF file appears to be empty"
    ELSE "none"

\* extract_text_from_pdf (pdf_utils.py lines 10-40): the error message of
\* the pair it returns, "none" for None
extraction_error(file) ==
    IF file.content \in {"corrupt", "broken_pages"} THEN "Failed to process PDF"
    ELSE IF file.content \in {"no_pages", "blank_pages"}
    THEN "No text content could be extracted"
    ELSE "none"

DocId(k) == <<"doc", k>>

\* lines 41-45: the Document record of an upload
NewDocument(id, file) ==
    [id |-> id, filename |-> file.filename, file_size |-> file.size,
     processing_status |-> "processing", total_chunks |-> 0,
     error_message |-> "none"]

\* lines 53-60, 67-74, 104-112: the result of a failed upload
FailedResultLeavesStatus(document, message) ==
    [document |-> [document EXCEPT !.error_message = message],
     chunks |-> <<>>, success |-> FALSE, error_message |-> message,
     stored |-> FALSE]
FailedResult(document, message) ==
    [document |-> [document EXCEPT !.processing_status = "failed",
                                   !.error_message = message],
     chunks |-> <<>>, success |-> FALSE, error_message |-> message,
     stored |-> FALSE]

\* lines 77-82: the chunks create_text_chunks makes of the text, n of them
DocumentChunks(id, n) ==
    [j \in 1..n |-> [document_id |-> id, chunk_index |-> j - 1]]

\* lines 47-112: the ProcessingResult of an upload whose text gives n
\* chunks; `fault` says that a statement of the try block raised; `stored`
\* says whether lines 89-90 were run
ProcessOutcomeStoresAsCreated(id, file, n, fault) ==
    LET document == NewDocument(id, file)
    IN  IF validate_pdf_file(file) # "none"
        THEN FailedResult(document, validate_pdf_file(file))
        ELSE IF extraction_error(file) # "none"
        THEN FailedResult(document, extraction_error(file))
        ELSE IF fault
        THEN FailedResult(document, "Unexpected error processing")
        ELSE [document |-> document,
              chunks |-> DocumentChunks(id, n), success |-> TRUE,
              error_message |-> "none", stored |-> TRUE]
ProcessOutcome(id, file, n, fault) ==
    LET document == NewDocument(id, file)
    IN  IF validate_pdf_file(file) # "none"
        THEN FailedResult(document, validate_pdf_file(file))
        ELSE IF extraction_error(file) # "none"
        THEN FailedResult(document, extraction_error(file))
        ELSE IF fault
        THEN FailedResult(document, "Unexpected error processing")
        ELSE [document |-> [document EXCEPT !.processing_status = "completed",
                                            !.total_chunks = n],
              chunks |-> DocumentChunks(id, n), success |-> TRUE,
              error_message |-> "none", stored |-> TRUE]

DocsBefore ==
    [processed_documents |-> processed_documents,
     document_chunks |-> document_chunks]

DocInit ==
    /\ processed_documents = <<>> /\ document_chunks = <<>>
    /\ dc_uuids = 0 /\ dc_call = [op |-> "none"]

\* process_uploaded_file(file_data, filename), lines 23-112
process_uploaded_file ==
    /\ dc_uuids < MaxUploads
    /\ \E file \in Uploads, n \in 1..MaxDocChunks, fault \in BOOLEAN :
        \E out \in {ProcessOutcome(DocId(dc_uuids + 1), file, n, fault)} :
          /\ processed_documents' =
                 IF out.stored
                 THEN Extend(processed_documents, out.document.id, out.document)
                 ELSE processed_documents
          /\ document_chunks' =
                 IF out.stored
                 THEN Extend(document_chunks, out.document.id, out.chunks)
                 ELSE document_chunks
          /\ dc_call' = [op |-> "process_uploaded_file", file |-> file,
                         before |-> DocsBefore,
                         result |-> [document |-> out.document,
                                     chunks |-> out.chunks,
                                     success |-> out.success,
                                     error_message |-> out.error_message]]
    /\ dc_uuids' = dc_uuids + 1
    /\ UNCHANGED <<ck_vars, cl_vars, ix_vars, rg_vars, ch_vars>>

\* remove_document(document_id), lines 133-141
remove_document_and_vectors ==
    \E id \in {DocId(k) : k \in 1..MaxUploads} :
        /\ processed_documents' =
               IF id \in DOMAIN processed_documents
               THEN Without(processed_documents, id) ELSE processed_documents
        /\ document_chunks' =
               IF id \in DOMAIN processed_documents /\ id \in DOMAIN document_chunks
               THEN Without(document_chunks, id) ELSE document_chunks
        /\ dc_call' = [op |-> "remove_document", document_id |-> id,
                       before |-> DocsBefore,
                       result |-> id \in DOMAIN processed_documents]
        /\ ix_index' = NoIndex
        /\ chunk_metadata' = EmptyMap
        /\ document_names' = EmptyMap
        /\ UNCHANGED <<dk_index, dk_meta, ix_call, sr_call>>
        /\ UNCHANGED dc_uuids
        /\ UNCHANGED <<ck_vars, cl_vars, rg_vars, ch_vars>>
remove_document ==
    \E id \in {DocId(k) : k \in 1..MaxUploads} :
        /\ processed_documents' =
               IF id \in DOMAIN processed_documents
               THEN Without(processed_documents, id) ELSE processed_documents
        /\ document_chunks' =
               IF id \in DOMAIN processed_documents /\ id \in DOMAIN document_chunks
               THEN Without(document_chunks, id) ELSE document_chunks
        /\ dc_call' = [op |-> "remove_document", document_id |-> id,
                       before |-> DocsBefore,
                       result |-> id \in DOMAIN processed_documents]
        /\ UNCHANGED dc_uuids
        /\ UNCHANGED <<ck_vars, cl_vars, ix_vars, rg_vars, ch_vars>>

\* clear_all_documents(), lines 143-147
clear_all_documents ==
    /\ processed_documents' = <<>>
    /\ document_chunks' = <<>>
    /\ dc_call' = [op |-> "clear_all_documents", before |-> DocsBefore]
    /\ UNCHANGED dc_uuids
    /\ UNCHANGED <<ck_vars, cl_vars, ix_vars, rg_vars, ch_vars>>

DocNext == process_uploaded_file \/ remove_document \/ clear_all_documents

----------------------------------------------------------------------------
\* The documents page (document_upload.py): uploads, removals and the
\* searches made on the index the uploads filled.

\* The files given to the page: small files, with and without the PDF
\* suffix, with text or unreadable
PageUploads ==
    {file \in Uploads :
        /\ file.size = 1
        /\ file.filename \in {<<"a", ".", "p", "d", "f">>, <<"a", ".", "t", "x", "t">>}
        /\ file.content \in {"corrupt", "text_pages"}}

\* result.chunks as the vector service sees them (lines 63-74): chunk j has
\* the uuid ids[j] and the document id of the result
IndexedChunks(cks, ids) ==
    [j \in 1..Len(cks) |-> [id |-> ids[j], document_id |-> cks[j].document_id]]

\* One file of the upload loop, lines 46-94: process_uploaded_file, then
\* for a successful result generate_chunk_embeddings (which gives every
\* chunk the vector v, or raises when `embedded` is false),
\* add_embeddings and, when that succeeded, save_index.
upload_file ==
    /\ dc_uuids < MaxUploads
    /\ \E file \in PageUploads, v \in ModelVectors, embedded \in BOOLEAN :
        \E out \in {ProcessOutcome(DocId(dc_uuids + 1), file, 1, FALSE)},
           ids \in {FreshIds(1, 0)} :
          /\ processed_documents' =
                 IF out.stored
                 THEN Extend(processed_documents, out.document.id, out.document)
                 ELSE processed_documents
          /\ document_chunks' =
                 IF out.stored
                 THEN Extend(document_chunks, out.document.id, out.chunks)
                 ELSE document_chunks
          /\ dc_call' = [op |-> "process_uploaded_file", file |-> file,
                         before |-> DocsBefore,
                         result |-> [document |-> out.document,
                                     chunks |-> out.chunks,
                                     success |-> out.success,
                                     error_message |-> out.error_message]]
          /\ IF out.success /\ embedded
             THEN LET cks == IndexedChunks(out.chunks, ids)
                      embeddings == [i \in {cks[j].id : j \in 1..Len(cks)} |-> v]
                  IN  \E added \in {AddOutcome(cks, embeddings, file.filename)} :
                        /\ ix_index' = added.index
                        /\ chunk_metadata' = added.meta
                        /\ document_names' = added.names
                        /\ IF added.result                       \* lines 76-81
                           THEN /\ dk_index' = IndexBlob(added.index)
                                /\ dk_meta' = MetaBlob(added.meta, added.names)
                                /\ ix_call' = [NoCall EXCEPT !.op = "save_index",
                                                             !.result = TRUE]
                           ELSE /\ UNCHANGED <<dk_index, dk_meta>>
                                /\ ix_call' = [NoCall EXCEPT !.op = "add_embeddings"]
             ELSE UNCHANGED <<ix_index, chunk_metadata, document_names,
                              dk_index, dk_meta, ix_call>>
    /\ dc_uuids' = dc_uuids + 1
    /\ sr_call' = NoSearch
    /\ UNCHANGED <<ck_vars, cl_vars, rg_vars, ch_vars>>

\* The search the chat page makes on the index (rag_service.py lines
\* 57-62): top_k=retrieval_count, relevance_threshold=0.1
search_for_chat ==
    \E q \in ModelVectors :
      \E resp \in SearchOutcomes(ix_index, chunk_metadata, document_names,
                                 q, retrieval_count, RagThreshold) :
        /\ sr_call' = [called |-> TRUE, query_embedding |-> q,
                       top_k |-> retrieval_count,
                       relevance_threshold |-> RagThreshold, response |-> resp]
        /\ ix_call' = [NoCall EXCEPT !.op = "search"]
        /\ UNCHANGED <<ix_index, chunk_metadata, document_names,
                       dk_index, dk_meta>>
        /\ UNCHANGED <<ck_vars, cl_vars, rg_vars, ch_vars, dc_vars>>

\* The delete button of a document and the clear-all button (lines
\* 160-177) call remove_document and clear_all_documents and nothing else.
LibraryNext ==
    \/ upload_file \/ remove_document \/ clear_all_documents
    \/ search_for_chat \/ clear_index

----------------------------------------------------------------------------
\* Specifications: one per component, the other components staying as
\* constructed.
Init ==
    /\ ChunkerInit /\ ClientInit /\ IndexInit /\ RagInit
    /\ ChatInit /\ DocInit
ChunkerSpec == Init /\ [][ChunkerNext]_vars
ScenarioSpec == Init /\ [][ScenarioNext]_vars
ClientSpec == Init /\ [][ClientNext]_vars
IndexSpec == Init /\ [][IndexNext]_vars
SearchSpec == Init /\ [][SearchNext]_vars
StoreSpec == Init /\ [][StoreNext]_vars
RagSpec == Init /\ [][RagNext]_vars
ChatSpec == Init /\ [][ChatNext]_vars
ConversationSpec == Init /\ [][ConversationNext]_vars
DocSpec == Init /\ [][DocNext]_vars
LibrarySpec == Init /\ [][LibraryNext]_vars

----------------------------------------------------------------------------
\* Properties of the chunker.

\* The offsets 0 .. len-1 that lie in the span of some returned chunk.
Covered ==
    {o \in 0..(Len(clean_content) - 1) :
        \E i \in 1..Len(chunks) :
            chunks[i].start_char <= o /\ o < chunks[i].end_char}

\* Some returned chunk was cut early, right after a sentence terminator.
CutAtSentence ==
    \E i \in 1..Len(chunks) :
        /\ chunks[i].end_char < Len(clean_content)
        /\ chunks[i].end_char < chunks[i].start_char + chunk_size
        /\ clean_content[chunks[i].end_char] = "."

\* C1: for every text and valid chunk_size/chunk_overlap the sliding-window
\* loop of create_text_chunks comes to its end after finitely many
\* iterations: every iteration either returns or moves `start` strictly
\* forward from a position inside the text, so len(text) - start is a
\* positive, strictly decreasing measure and there are at most len(text)
\* iterations.
C1_Terminates ==
    [][(ck_pc = "loop" /\ ValidParams) =>
          \/ ck_pc' = "done"
          \/ /\ ck_pc' = "loop"
             /\ 0 <= start /\ start < Len(clean_content)
             /\ start < start']_vars

\* C1 witness: a call with valid parameters that returned after at least
\* three iterations of the loop.
C1_Witness == ValidParams /\ ck_pc = "done" /\ Len(chunks) >= 3

\* C2: for valid chunk_size/chunk_overlap every chunk of the list satisfies
\* 0 <= start_char < end_char <= len(normalized text).
C2_ChunkBounds ==
    ValidParams =>
        \A i \in 1..Len(chunks) :
            /\ 0 <= chunks[i].start_char
            /\ chunks[i].start_char < chunks[i].end_char
            /\ chunks[i].end_char <= Len(clean_content)

\* C2 witness: a returned list of several chunks, one of them cut at a
\* sentence terminator and the last one ending at the end of the text.
C2_Witness ==
    /\ ValidParams /\ ck_pc = "done" /\ Len(chunks) >= 2 /\ CutAtSentence
    /\ chunks[Len(chunks)].end_char = Len(clean_content)

\* C3 (as claimed): for a non-empty normalized text and valid parameters the
\* spans of the returned chunks cover every offset of the normalized text.
C3_FullCoverage ==
    (ck_pc = "done" /\ ValidParams /\ clean_content # <<>>) =>
        Covered = 0..(Len(clean_content) - 1)

\* The number of characters chunk i and chunk i + 1 have in common (below
\* 1: none, the chunks do not meet).
Shared(i) == chunks[i].end_char - chunks[i + 1].start_char

\* C29 (as claimed): chunking a normalized text of 2500 characters with
\* chunk_size=1000 and chunk_overlap=200 gives exactly 3 chunks, consecutive
\* chunks share about 200 characters (read generously: at least half of the
\* overlap and at most the overlap), and the last chunk ends at 2500.
C29_ScenarioA ==
    (ck_pc = "done" /\ Len(clean_content) = ScenarioLength
       /\ chunk_size = default_chunk_size
       /\ chunk_overlap = default_chunk_overlap) =>
        /\ Len(chunks) = 3
        /\ chunks[Len(chunks)].end_char = ScenarioLength
        /\ \A i \in 1..(Len(chunks) - 1) :
               /\ 2 * Shared(i) >= default_chunk_overlap
               /\ Shared(i) <= default_chunk_overlap

\* The offset of the last sentence terminator in the window of chunk_size
\* characters that starts at s (-1: none).
LastTerminator(s) == rfind(clean_content, ".", s, s + chunk_size)

\* C30 (as claimed): when the window of a chunk does not reach the end of
\* the text, the chunk is cut right after the last sentence terminator of
\* the window if and only if that terminator lies at or after the midpoint
\* start + chunk_size/2 of the window, and at the hard boundary
\* start + chunk_size otherwise.
C30_CutAtOrAfterMidpoint ==
    ValidParams =>
        \A i \in 1..Len(chunks) :
            LET s == chunks[i].start_char
                t == LastTerminator(s)
            IN  s + chunk_size < Len(clean_content) =>
                    IF t # -1 /\ 2 * t >= 2 * s + chunk_size
                    THEN chunks[i].end_char = t + 1
                    ELSE chunks[i].end_char = s + chunk_size

\* C31: after each emitted chunk, when the loop goes on, the next window
\* start is the old start plus chunk_size - chunk_overlap whenever that
\* exceeds the start of the chunk just emitted, and the end of that chunk
\* otherwise, which happens only when chunk_overlap >= chunk_size; in both
\* cases it is not below the chunk's end minus chunk_overlap and it is
\* strictly greater than the chunk's start, so the loop advances.
C31_NextStartAdvances ==
    [][(ck_pc = "loop" /\ ck_pc' = "loop" /\ Len(chunks') = Len(chunks) + 1) =>
          LET last == chunks'[Len(chunks')]
              computed == start + chunk_size - chunk_overlap
          IN  /\ last.start_char = start
              /\ computed > last.start_char => start' = computed
              /\ computed <= last.start_char =>
                     /\ start' = last.end_char
                     /\ chunk_overlap >= chunk_size /\ chunk_size > 0
              /\ start' >= last.end_char - chunk_overlap
              /\ start' > last.start_char]_vars

\* C31 witness: with chunk_overlap >= chunk_size a second chunk was emitted,
\* starting at the end of the first one.
C31_Witness ==
    /\ chunk_size > 0 /\ chunk_overlap >= chunk_size /\ Len(chunks) >= 2
    /\ chunks[2].start_char = chunks[1].end_char
    /\ chunks[1].end_char < chunks[1].start_char + chunk_size

\* The loop is at an iteration that changes neither `chunks` nor `start`
\* and does not break: it runs forever.
LoopStuck ==
    /\ ck_pc = "loop" /\ start < Len(clean_content)
    /\ ChunkEnd(start) < Len(clean_content)
    /\ AppendChunk(chunks, start, ChunkEnd(start)) = chunks
    /\ NextStart(chunks, start, ChunkEnd(start)) = start

\* C32 (as claimed): a call with malformed parameters (chunk_size <= 0,
\* chunk_overlap < 0 or chunk_overlap >= chunk_size) on a non-empty text is
\* reported to the caller: it does not loop forever and it does not return
\* a chunk list.
C32_MalformedParamsReported ==
    (~ValidParams /\ clean_content # <<>>) => (~LoopStuck /\ ck_pc # "done")

\* C33: for valid chunk_size/chunk_overlap the start_char and the end_char
\* of the chunks are non-decreasing in chunk_index order, the chunk_index
\* values being 0, 1, 2, ..., and every chunk has non-empty trimmed
\* content.
C33_OffsetsMonotone ==
    ValidParams =>
        /\ \A i \in 1..Len(chunks) :
               /\ chunks[i].chunk_index = i - 1
               /\ Strip(chunks[i].content) # <<>>
               /\ chunks[i].content
                      = Strip(Slice(clean_content, chunks[i].start_char,
                                    chunks[i].end_char))
        /\ \A i \in 1..(Len(chunks) - 1) :
               /\ chunks[i].start_char <= chunks[i + 1].start_char
               /\ chunks[i].end_char <= chunks[i + 1].end_char

\* C33 witness: a returned list of three chunks, one window in between
\* having been dropped because it held only whitespace.
C33_Witness ==
    /\ ValidParams /\ ck_pc = "done" /\ Len(chunks) >= 3
    /\ \E i \in 1..(Len(chunks) - 1) :
           chunks[i + 1].start_char > chunks[i].start_char + chunk_size - chunk_overlap

----------------------------------------------------------------------------
\* Properties of the provider client.

\* The current sub-batch (operation) has failed on three attempts.
ThreeFailures ==
    /\ Len(cl_log) = 3
    /\ \A j \in 1..3 : cl_log[j].outcome \in Failures

\* C4: an operation (a sub-batch) calls the provider at most 3 times; a
\* successful attempt is the last call; when the third attempt fails the
\* error is raised: the operation returns neither a value nor nothing.
C4_AtMostThreeAttempts ==
    /\ Len(cl_log) <= 3
    /\ \A j \in 1..Len(cl_log) : cl_log[j].outcome = "ok" => j = Len(cl_log)
    /\ (Len(cl_log) = 3 /\ cl_log[3].outcome \in Failures) =>
          /\ cl_pc = "raised"
          /\ cl_error = cl_log[3].outcome
          /\ cl_result = <<>>
    /\ cl_pc # "fell_through"

\* C4 witness: the third attempt of a single-call operation failed, after
\* two failed attempts.
C4_Witness ==
    /\ cl_op \in {"get_embedding", "chat_completion"}
    /\ ThreeFailures /\ cl_pc = "raised"

\* C5: the wait after a failed attempt with zero-based index a is
\* base_delay * 2^a after a rate-limit signal and base_delay after any other
\* error, whatever the attempt; a wait precedes every retry.
C5_BackoffDelays ==
    \A j \in 1..Len(cl_log) :
        (cl_log[j].outcome \in Failures /\ (cl_log[j].wait # 0 \/ j < Len(cl_log)))
        => cl_log[j].wait = IF cl_log[j].outcome = "rate_limit"
                            THEN 1 * (2 ^ cl_log[j].attempt)
                            ELSE 1

\* C5 witness: a flat wait of 1 after an API error on attempt 0, then a wait
\* of 2 after a rate-limit signal on attempt 1, then the third attempt.
C5_Witness ==
    /\ Len(cl_log) = 3
    /\ cl_log[1].outcome = "api_error" /\ cl_log[1].wait = 1
    /\ cl_log[2].outcome = "rate_limit" /\ cl_log[2].wait = 2

\* C6 (as claimed): an error that is neither a rate-limit signal nor a
\* provider API error is not retried: it is the last provider call of the
\* operation and the operation ends by raising it.
C6_FatalNotRetried ==
    cl_pc \in {"returned", "raised"} =>
        \A j \in 1..Len(cl_log) :
            cl_log[j].outcome = "other" =>
                j = Len(cl_log) /\ cl_pc = "raised" /\ cl_error = "other"

\* C7: when get_embeddings_batch returns, it returns len(texts) vectors, the
\* i-th one the embedding of texts[i], and generate_chunk_embeddings has
\* entered, for every chunk, the embedding of that chunk's content.
C7_BatchOrderPreserved ==
    (cl_op = "get_embeddings_batch" /\ cl_pc = "returned") =>
        /\ Len(cl_result) = Len(cl_texts)
        /\ \A k \in 1..Len(cl_texts) : cl_result[k] = Emb(cl_texts[k])
        /\ DOMAIN es_chunk_embeddings = 1..Len(cl_texts)
        /\ \A k \in 1..Len(cl_texts) : es_chunk_embeddings[k] = Emb(TextOf(k))

\* C7 witness: a call over three sub-batches returned, the last sub-batch
\* having succeeded on its third attempt only.
C7_Witness ==
    /\ cl_op = "get_embeddings_batch" /\ cl_pc = "returned"
    /\ Len(cl_texts) > 2 * batch_size
    /\ Len(cl_log) = 3 /\ cl_log[3].outcome = "ok"

\* C8: when a sub-batch fails on all 3 attempts the call raises and returns
\* no vector, no later sub-batch has been submitted, and
\* generate_chunk_embeddings has stored no embedding.
C8_FailedBatchAborts ==
    (cl_op = "get_embeddings_batch" /\ (ThreeFailures \/ cl_pc = "raised")) =>
        /\ cl_pc = "raised"
        /\ cl_result = <<>>
        /\ \A o \in cl_sent : o <= cl_log[1].batch
        /\ DOMAIN es_chunk_embeddings = {}

\* C8 witness: the second of three sub-batches failed three times after the
\* first one had succeeded.
C8_Witness ==
    /\ cl_op = "get_embeddings_batch" /\ cl_pc = "raised" /\ ThreeFailures
    /\ cl_i = batch_size /\ Len(all_embeddings) = batch_size
    /\ Len(cl_texts) > 2 * batch_size

----------------------------------------------------------------------------
\* Properties of the vector index.

\* The embedding a call holds for a chunk, and the chunks of a call that
\* have an embedding with a non-zero component.
CallEmbedding(call, c) == call.embeddings[c.id]
CallValid(call) ==
    SelectSeq(call.chunks, LAMBDA c :
        /\ c.id \in DOMAIN call.embeddings
        /\ \E j \in DOMAIN call.embeddings[c.id] : call.embeddings[c.id][j] # 0)

\* The vectors of those chunks have one length, the dimension of the index
\* when there is an index.
CallFits(call, index) ==
    \A j \in 1..Len(CallValid(call)) :
        /\ Len(CallEmbedding(call, CallValid(call)[j]))
             = Len(CallEmbedding(call, CallValid(call)[1]))
        /\ index.live => Len(CallEmbedding(call, CallValid(call)[j])) = index.d

\* v is a positive multiple of w.
SameDirection(w, v) ==
    /\ Len(w) = Len(v)
    /\ \E k \in 1..3 : \A j \in 1..Len(v) : v[j] = k * w[j]

\* This step is a call of add_embeddings.
IsAdd == ix_call'.op = "add_embeddings"

\* The step returned True and appended exactly the valid chunks of the call,
\* in order, after what the index (if any) held.
StoredExactlyValid ==
    LET valid  == CallValid(ix_call')
        before == Len(ix_index.vecs)
    IN  /\ ix_call'.result = TRUE
        /\ ix_index'.live
        /\ Len(ix_index'.vecs) = before + Len(valid)
        /\ \A j \in 1..before : ix_index'.vecs[j] = ix_index.vecs[j]
        /\ DOMAIN chunk_metadata' = (DOMAIN chunk_metadata) \cup (before..(before + Len(valid) - 1))
        /\ \A k \in DOMAIN chunk_metadata : chunk_metadata'[k] = chunk_metadata[k]
        /\ \A j \in 1..Len(valid) :
              /\ SameDirection(ix_index'.vecs[before + j], CallEmbedding(ix_call', valid[j]))
              /\ chunk_metadata'[before + j - 1] = valid[j]
              /\ valid[j].document_id \in DOMAIN document_names'
              /\ document_names'[valid[j].document_id] = ix_call'.document_name

\* The step returned False and changed nothing.
NothingStored ==
    /\ ix_call'.result = FALSE
    /\ UNCHANGED <<ix_index, chunk_metadata, document_names>>

\* add_embeddings returns True if and only if a vector was appended.
TrueIffAppended ==
    ix_call'.result = (ix_index'.live /\ Len(ix_index'.vecs) > Len(ix_index.vecs))

\* C9 (as claimed): add_embeddings skips each chunk without an embedding or
\* with a zero-norm embedding, appends every other chunk, and returns True
\* if and only if at least one vector was appended.
C9_AppendsEveryOtherChunk ==
    [][IsAdd =>
          /\ TrueIffAppended
          /\ IF CallValid(ix_call') # <<>>
             THEN StoredExactlyValid ELSE NothingStored]_vars

\* C9 (amended): as claimed when the vectors of the chunks that are not
\* skipped all have one length, which is the dimension of the index when
\* there is one; otherwise nothing is appended and the result is False.
C9_AppendsValidChunksThatFit ==
    [][IsAdd =>
          /\ TrueIffAppended
          /\ IF CallValid(ix_call') # <<>> /\ CallFits(ix_call', ix_index)
             THEN StoredExactlyValid ELSE NothingStored]_vars

\* C9 witness: a call with a zero-norm chunk and a valid chunk returned True
\* and the index holds the valid chunk in its last slot.
C9_Witness ==
    /\ ix_call.op = "add_embeddings" /\ ix_call.result
    /\ Len(ix_call.chunks) = 2 /\ Len(CallValid(ix_call)) = 1
    /\ \E j \in 1..2 :
          /\ ix_call.chunks[j].id \in DOMAIN ix_call.embeddings
          /\ ix_call.embeddings[ix_call.chunks[j].id] = <<0, 0>>
    /\ chunk_metadata[Len(ix_index.vecs) - 1] = CallValid(ix_call)[1]

\* C10: the first vector inserted sets the dimension of the index; only
\* create_index and clear_index change or drop it afterwards; every stored
\* vector has it; and an add_embeddings call whose vectors do not have it,
\* or differ in length, returns False and changes neither the stored
\* vectors nor the metadata nor the document names.
C10_DimensionFixed ==
    [][/\ (IsAdd /\ ~ix_index.live /\ ix_call'.result) =>
             ix_index'.d = Len(CallEmbedding(ix_call', CallValid(ix_call')[1]))
       /\ (IsAdd /\ ix_index.live) =>
             ix_index'.live /\ ix_index'.d = ix_index.d
       /\ (ix_index.live /\ (~ix_index'.live \/ ix_index'.d # ix_index.d)) =>
             ix_call'.op \in {"create_index", "clear_index"}
       /\ \A j \in 1..Len(ix_index'.vecs) : Len(ix_index'.vecs[j]) = ix_index'.d
       /\ (IsAdd /\ CallValid(ix_call') # <<>> /\ ~CallFits(ix_call', ix_index)) =>
             NothingStored]_vars

\* C10 witness: an index that holds a vector has just rejected a call with a
\* vector of another dimension.
C10_Witness ==
    /\ ix_call.op = "add_embeddings" /\ ~ix_call.result
    /\ ix_index.live /\ Len(ix_index.vecs) >= 1
    /\ CallValid(ix_call) # <<>>
    /\ Len(CallEmbedding(ix_call, CallValid(ix_call)[1])) # ix_index.d

----------------------------------------------------------------------------
\* Properties of the vector index with its persisted files.

\* C11: the slots that carry chunk metadata are exactly 0 .. total_vectors-1,
\* in every state that create_index, add_embeddings, save_index, load_index
\* and clear_index can reach, failed calls included.
C11_SlotsDense ==
    DOMAIN chunk_metadata = 0..(Len(ix_index.vecs) - 1)

\* The searches tried on a state, and the responses search can give to one.
Searches == QueryVectors \X TopKs \X Thresholds
Responses(sq) ==
    SearchOutcomes(ix_index, chunk_metadata, document_names,
                   sq[1], sq[2], sq[3])

\* The score a is at least the threshold t, as numbers.
NotBelow(a, t) == a.dot * a.dot * t.m * t.m >= t.n * t.n * Den(a)

\* The slots of stored vectors whose chunk is not in the results res.
Outside(res) ==
    {slot \in 0..(Len(ix_index.vecs) - 1) :
        \/ slot \notin DOMAIN chunk_metadata
        \/ \A i \in 1..Len(res) : res[i].chunk # chunk_metadata[slot]}

\* C12: search returns at most min(top_k, total_stored) results, in
\* non-increasing score order, each with a score of at least
\* relevance_threshold, and unless it returns top_k results no stored vector
\* left out scores strictly higher than a returned one; with [1,0] and [0,1]
\* stored, the query [0.9,0.1] with top_k = 2 gets the chunk of [1,0] before
\* the chunk of [0,1].
C12_SearchRanked ==
    \A sq \in Searches : \A resp \in Responses(sq) :
        LET res == resp.results
            qv  == QueryVector(sq[1])
        IN  /\ Len(res) <= Min(sq[2], Len(ix_index.vecs))
            /\ \A i \in 1..(Len(res) - 1) :
                  ScoreLeq(res[i + 1].relevance_score, res[i].relevance_score)
            /\ \A i \in 1..Len(res) : NotBelow(res[i].relevance_score, sq[3])
            /\ Len(res) < sq[2] =>
                  \A slot \in Outside(res) : \A i \in 1..Len(res) :
                      ScoreLeq(Score(ix_index.vecs[slot + 1], qv),
                               res[i].relevance_score)
            /\ ( /\ ix_index.vecs = << <<1, 0>>, <<0, 1>> >>
                 /\ DOMAIN chunk_metadata = {0, 1}
                 /\ sq[1] = <<9, 1>> /\ sq[2] = 2 /\ sq[3].n * 10 <= sq[3].m )
               => /\ Len(res) = 2
                  /\ res[1].chunk = chunk_metadata[0]
                  /\ res[2].chunk = chunk_metadata[1]

\* C13: search never raises; on an index that is None or empty it returns no
\* result, total_results 0 and search_time 0.0; a failure inside a search on
\* a populated index (a query of another dimension) also gives no result;
\* and search leaves the index, its metadata and its files as they were.
C13_SearchNeverRaises ==
    [][sr_call'.called =>
          /\ ~sr_call'.response.raised
          /\ UNCHANGED <<ix_index, chunk_metadata, document_names,
                         dk_index, dk_meta>>
          /\ (~ix_index.live \/ Len(ix_index.vecs) = 0) =>
                /\ sr_call'.response.results = <<>>
                /\ sr_call'.response.total_results = 0
                /\ sr_call'.response.search_time = "zero"
          /\ ( /\ ix_index.live /\ Len(ix_index.vecs) > 0
               /\ Len(sr_call'.query_embedding) # ix_index.d ) =>
                /\ sr_call'.response.results = <<>>
                /\ sr_call'.response.total_results = 0]_vars

\* C13 witness: a search on a populated index with a query of another
\* dimension has returned no result.
C13_Witness ==
    /\ sr_call.called
    /\ ix_index.live /\ Len(ix_index.vecs) > 0
    /\ Len(sr_call.query_embedding) # ix_index.d
    /\ sr_call.response.results = <<>>
    /\ ~sr_call.response.raised

\* C14: for every vector V stored in the index, a search with query V,
\* top_k >= 1 and relevance_threshold <= 1.0 returns a result whose first
\* entry has the maximal score, that of V against itself, and refers to a
\* chunk stored with a vector of the direction of V.
C14_SelfQueryTopHit ==
    \A slot \in 0..(Len(ix_index.vecs) - 1) :
      \A top_k \in TopKs \ {0}, t \in Thresholds :
        \A resp \in SearchOutcomes(ix_index, chunk_metadata, document_names,
                                   ix_index.vecs[slot + 1], top_k, t) :
            LET v == ix_index.vecs[slot + 1]
            IN  /\ resp.results # <<>>
                /\ resp.results[1].relevance_score = Score(v, v)
                /\ \A other \in 0..(Len(ix_index.vecs) - 1) :
                      ScoreLeq(Score(ix_index.vecs[other + 1], v),
                               resp.results[1].relevance_score)
                /\ \E hit \in DOMAIN chunk_metadata :
                      /\ chunk_metadata[hit] = resp.results[1].chunk
                      /\ ix_index.vecs[hit + 1] = v

\* A fixed set of searches: the query [0.9, 0.1] for two results above 0.0,
\* and the query [1, 0] for one result above 0.1.
FixedSearches ==
    { << <<9, 1>>, 2, [n |-> 0, m |-> 1] >>,
      << <<1, 0>>, 1, [n |-> 1, m |-> 10] >> }

\* C15: in the state a save_index that returned True leaves (save_index
\* does not change what the service holds), a fresh VectorService over the
\* files holds the vectors, the slot metadata and the document names of
\* the service that saved, and answers the searches of a fixed set as that
\* service does.
C15_SaveLoadRoundTrip ==
    (ix_call.op = "save_index" /\ ix_call.result) =>
        LET fresh == FreshService(dk_index, dk_meta)
        IN  /\ fresh.result
            /\ fresh.index = ix_index
            /\ fresh.meta = chunk_metadata
            /\ fresh.names = document_names
            /\ \A sq \in FixedSearches :
                  SearchOutcomes(fresh.index, fresh.meta, fresh.names,
                                 sq[1], sq[2], sq[3]) = Responses(sq)

\* C15 witness: a fresh service has loaded two vectors of two documents that
\* an earlier save_index wrote.
C15_Witness ==
    /\ ix_call.op = "__init__" /\ ix_call.result
    /\ Len(ix_index.vecs) = 2
    /\ DOMAIN chunk_metadata = {0, 1}
    /\ DOMAIN document_names = Docs
    /\ dk_index = IndexBlob(ix_index)

\* A file that load_index cannot use: it is missing or cannot be read.
Unusable(file) == ~file.exists \/ ~file.readable

\* C16: when the index file or the metadata file is missing or unreadable,
\* also when only one of them is, the load of a fresh VectorService returns
\* False and the service holds no vector, no slot metadata and no document
\* name.
C16_FailedLoadLeavesEmpty ==
    (ix_call.op = "__init__" /\ (Unusable(dk_index) \/ Unusable(dk_meta))) =>
        /\ ~ix_call.result
        /\ ix_index.vecs = <<>>
        /\ chunk_metadata = EmptyMap
        /\ document_names = EmptyMap

\* C17: a save_index call, whether it returns True or fails part-way, leaves
\* the two files both as this save writes them or both as they were.
C17_SaveAtomic ==
    [][ix_call'.op = "save_index" =>
          \/ UNCHANGED <<dk_index, dk_meta>>
          \/ /\ dk_index' = IndexBlob(ix_index)
             /\ dk_meta' = MetaBlob(chunk_metadata, document_names)]_vars

\* C18: after clear_index the service holds no vector, no slot metadata and
\* no document name and both files are gone; every search returns the empty
\* response; a fresh VectorService loads nothing; and another clear_index
\* finds no file to remove and leaves everything as it is.
C18_ClearDiscardsAll ==
    ix_call.op = "clear_index" =>
        /\ ~ix_index.live /\ ix_index.vecs = <<>>
        /\ chunk_metadata = EmptyMap
        /\ document_names = EmptyMap
        /\ ~dk_index.exists /\ ~dk_meta.exists
        /\ \A sq \in Searches : Responses(sq) = {SearchEmpty}
        /\ LET fresh == FreshService(dk_index, dk_meta)
           IN  ~fresh.result /\ ~fresh.index.live /\ fresh.meta = EmptyMap
        /\ LET again == ClearOutcome(dk_index, dk_meta)
           IN  /\ ~again.removed
               /\ again.index = ix_index
               /\ again.meta = chunk_metadata
               /\ again.names = document_names
               /\ again.fi = dk_index /\ again.fm = dk_meta

\* C18 witness: clear_index has removed the files of a saved index.
C18_Witness ==
    /\ ix_call.op = "clear_index" /\ ix_call.result
    /\ ~ix_index.live /\ ~dk_index.exists /\ ~dk_meta.exists

----------------------------------------------------------------------------
\* Properties of generate_response.

\* A step of the request has failed: get_embedding or chat_completion has
\* raised, or the search went through its except branch.
ClientCallFailed == cl_pc = "raised"
SearchStepFailed == rg_search.called /\ rg_search.failed

\* The response that explains a failure: the apology, without citations and
\* without token usage, with the elapsed time.
FailureShaped(resp) ==
    /\ resp.content = "apology"
    /\ resp.sources = <<>>
    /\ resp.token_usage = "none"
    /\ resp.response_time = "elapsed"

\* C19: generate_response never raises; when the query embedding, the search
\* or the completion has failed it returns the response that explains the
\* failure, with no citation, no token usage and the elapsed time.
C19_FailuresBecomeResponses ==
    rg_pc = "done" =>
        /\ rg_response.returned /\ ~rg_response.raised
        /\ (ClientCallFailed \/ SearchStepFailed) => FailureShaped(rg_response)

\* C20: when the search step has failed inside generate_response, the
\* response explains the failure and the text of the completion is not
\* returned as an answer.
C20_SearchFailureReported ==
    (rg_pc = "done" /\ SearchStepFailed) =>
        /\ rg_response.content = "apology"
        /\ rg_response.content # "response_text"

\* The completion call of the request has met the rate-limit signal on every
\* attempt made so far.
CompletionRateLimited ==
    /\ cl_op = "chat_completion" /\ cl_log # <<>>
    /\ \A j \in 1..Len(cl_log) : cl_log[j].outcome = "rate_limit"

\* C21: when the completion call fails with a rate-limit signal on every
\* attempt, exactly 3 attempts are made (a further attempt follows each of
\* the first two, none follows the third), and generate_response then
\* returns, without raising, the apology with an empty citation list,
\* whatever the search step had found.
C21_RateLimitedCompletionApologises ==
    CompletionRateLimited =>
        /\ Len(cl_log) <= 3
        /\ Len(cl_log) < 3 => (cl_pc = "try" /\ rg_pc = "completion")
        /\ Len(cl_log) = 3 => (cl_pc = "raised" /\ rg_pc \in {"completion", "done"})
        /\ rg_pc = "done" =>
              /\ Len(cl_log) = 3
              /\ rg_response.returned /\ ~rg_response.raised
              /\ rg_response.content = "apology"
              /\ rg_response.sources = <<>>

\* C21 witness: a request whose search had found a chunk and whose
\* completion call was rate-limited three times has returned.
C21_Witness ==
    /\ CompletionRateLimited /\ Len(cl_log) = 3 /\ rg_pc = "done"
    /\ rg_search.called /\ rg_search.response.results # <<>>

\* C22: the messages the completion is called with are the system
\* instruction, then the last min(6, n) entries of the n-entry conversation
\* history in their order, then one user message that holds the assembled
\* context followed by the question: between 2 and 8 messages.
C22_MessagesForCompletion ==
    (cl_op = "chat_completion" /\ rg_pc \in {"completion", "done"}) =>
        LET turns == conversation_history.turns
            n == Len(turns)
            k == Min(6, n)
        IN  /\ Len(messages) = k + 2
            /\ 2 <= Len(messages) /\ Len(messages) <= 8
            /\ messages[1] = SystemMessage
            /\ \A j \in 1..k : messages[1 + j] = turns[n - k + j]
            /\ messages[k + 2] = UserMessage(rg_search.response.results)
            /\ \A j \in 2..(k + 2) : messages[j].role # "system"

\* C22 witness: a completion called for a request with more than 6 entries
\* of history and a retrieved chunk.
C22_Witness ==
    /\ cl_op = "chat_completion" /\ rg_pc = "completion"
    /\ Len(conversation_history.turns) > 6
    /\ rg_search.response.results # <<>>

\* C36: generate_response embeds the query, then searches, then calls the
\* completion: the search is made only when get_embedding has returned an
\* embedding, the completion is called only after the search has returned,
\* a request whose search has returned does not end without the completion
\* having been called, whatever the search found, and a request whose
\* embedding failed ends with neither search nor completion.
C36_EmbedSearchComplete ==
    [][/\ (~rg_search.called /\ rg_search'.called) =>
             /\ rg_pc = "embedding"
             /\ cl_op = "get_embedding" /\ cl_pc = "returned"
       /\ (cl_op # "chat_completion" /\ cl_op' = "chat_completion") =>
             /\ rg_pc = "completion" /\ rg_search.called
             /\ messages = Messages(conversation_history,
                                    rg_search.response.results)
       /\ (rg_pc # "done" /\ rg_pc' = "done") =>
             IF rg_search.called THEN cl_op = "chat_completion"
             ELSE cl_op = "get_embedding" /\ cl_pc = "raised"]_vars

\* C36 witness: the completion was called and has answered for a request
\* whose search, made on an index that holds a chunk, returned no result.
C36_Witness ==
    /\ rg_pc = "done" /\ cl_op = "chat_completion"
    /\ rg_response.content = "response_text"
    /\ rg_search.called /\ ~rg_search.failed
    /\ rg_search.response.results = <<>>
    /\ Len(ix_index.vecs) > 0
    /\ messages[Len(messages)].content[2] = <<"No relevant context found">>

----------------------------------------------------------------------------
\* Properties of the chat sessions.

\* The last call was send_message; the messages its session held before it
\* (none when the call created the session).
IsSend == ch_call.op = "send_message"
MessagesBefore ==
    IF ch_call.session \in DOMAIN ch_call.before.sessions
    THEN ch_call.before.sessions[ch_call.session] ELSE <<>>

\* p is a prefix of q.
IsPrefix(p, q) == Len(p) <= Len(q) /\ SubSeq(q, 1, Len(p)) = p

\* C23: a send_message call appends exactly two messages to the session it
\* resolved, the user message and then an assistant message with the
\* content of the returned response, also when the orchestrator returned
\* its failure explanation; no other session is touched.
C23_SendAppendsTwo ==
    IsSend =>
        LET old == MessagesBefore
            now == sessions[ch_call.session]
            n == Len(old)
        IN  /\ ch_call.session \in DOMAIN sessions
            /\ Len(now) = n + 2
            /\ IsPrefix(old, now)
            /\ now[n + 1].role = "user"
            /\ now[n + 1].content = ch_call.message
            /\ now[n + 2].role = "assistant"
            /\ now[n + 2].content = ch_call.result.content
            /\ ch_call.outcome = "apology" =>
                   ch_call.result.content = <<"apology", 0>>
            /\ \A id \in DOMAIN ch_call.before.sessions :
                   id # ch_call.session =>
                       /\ id \in DOMAIN sessions
                       /\ sessions[id] = ch_call.before.sessions[id]

\* C23 witness: a send_message on a session that held a turn already, the
\* orchestrator having returned its failure explanation.
C23_Witness ==
    /\ IsSend /\ ch_call.outcome = "apology" /\ Len(MessagesBefore) >= 2

\* C24 (as claimed): the conversation history that send_message passes to
\* the orchestrator is the last 10 messages that precede the just-appended
\* user message (all of them when there are fewer), in order, as
\* role/content pairs, and the just-appended message is not in it.
C24_HistoryLastTen ==
    IsSend =>
        LET old == MessagesBefore
            n == Len(old)
            k == Min(10, n)
            h == ch_call.conversation_history
        IN  /\ Len(h) = k
            /\ \A j \in 1..Min(k, Len(h)) :
                   h[Len(h) - j + 1] = [role |-> old[n - j + 1].role,
                                        content |-> old[n - j + 1].content]
            /\ \A j \in 1..Len(h) : h[j].content # ch_call.message

\* C25 (as claimed): after send_message(m, session_id=s) a session with id s
\* exists, whether s was known before or not, and it holds the messages of
\* that turn; a send_message with an s that is known appends to that
\* session and creates no other one.
C25_SessionUnderGivenId ==
    (IsSend /\ HasId(ch_call.session_id)) =>
        /\ ch_call.session_id \in DOMAIN sessions
        /\ ch_call.session = ch_call.session_id
        /\ LET now == sessions[ch_call.session_id]
           IN  /\ Len(now) >= 2
               /\ now[Len(now) - 1].content = ch_call.message
               /\ now[Len(now)].content = ch_call.result.content
        /\ ch_call.session_id \in DOMAIN ch_call.before.sessions =>
               DOMAIN sessions = DOMAIN ch_call.before.sessions

\* C26: session history is append-only.  Across a send_message,
\* get_session_history or create_session call every session that existed
\* before the call still exists, and the messages it held before the call
\* are a prefix of the messages it holds after it: no message is edited,
\* removed or reordered.
C26_AppendOnly ==
    ch_call.op \in {"send_message", "get_session_history", "create_session"} =>
        \A id \in DOMAIN ch_call.before.sessions :
            /\ id \in DOMAIN sessions
            /\ IsPrefix(ch_call.before.sessions[id], sessions[id])

\* C26 witness: a send_message on a session that held a turn, while
\* another session holds messages too.
C26_Witness ==
    /\ IsSend /\ Len(MessagesBefore) >= 2
    /\ \E id \in DOMAIN sessions : id # ch_call.session /\ sessions[id] # <<>>

\* The session a clear_session call is about: the one of the given id, or
\* the current one when no id is given (None or the empty string, which the
\* code treats alike); NoneId when there is neither.
ClearTarget ==
    IF HasId(ch_call.session_id) THEN ch_call.session_id
    ELSE ch_call.before.current_session_id

\* C27: clear_session on an existing session removes it and returns True;
\* on a session id that does not exist, or without an id when there is no
\* current session, it returns False and changes nothing; clearing the same
\* session again leaves the state as it is, and so does a second
\* clear_all_sessions.
C27_ClearIdempotent ==
    /\ ch_call.op = "clear_session" =>
         LET b == ch_call.before
             again == ClearSession(sessions, current_session_id,
                                   ch_call.session_id)
             target == ClearSession(sessions, current_session_id, ClearTarget)
         IN  /\ ClearTarget \in DOMAIN b.sessions =>
                   /\ ch_call.result = TRUE
                   /\ sessions = Without(b.sessions, ClearTarget)
                   /\ current_session_id # ClearTarget
             /\ ClearTarget \notin DOMAIN b.sessions =>
                   /\ ch_call.result = FALSE
                   /\ sessions = b.sessions
                   /\ current_session_id = b.current_session_id
             /\ again.sessions = sessions
             /\ again.current_session_id = current_session_id
             /\ target.sessions = sessions
             /\ target.current_session_id = current_session_id
             /\ ~target.result
    /\ ch_call.op = "clear_all_sessions" =>
         /\ DOMAIN sessions = {} /\ current_session_id = NoneId
         /\ ClearAll(sessions, current_session_id).sessions = sessions
         /\ ClearAll(sessions, current_session_id).current_session_id =
                current_session_id

\* C27 witness: a clear_session that removed one of two sessions, the one
\* left holding messages.
C27_Witness ==
    /\ ch_call.op = "clear_session" /\ ch_call.result = TRUE
    /\ \E id \in DOMAIN sessions : sessions[id] # <<>>

----------------------------------------------------------------------------
\* Properties of the document service.

IsUpload == dc_call.op = "process_uploaded_file"

\* The upload fails validation (size, extension, PDF structure, no page) or
\* text extraction (pages that cannot be read, no text).
UploadFails ==
    \/ dc_call.file.size > max_file_size
    \/ ~EndsWithPdf(dc_call.file.filename)
    \/ dc_call.file.content # "text_pages"

\* C28: when validation or text extraction of an upload fails,
\* process_uploaded_file returns success False, no chunks and the document
\* in status failed with the error message set, and the stored documents
\* and chunks are as before; no call returns a document in status pending
\* or processing.
C28_FailedUploadStoresNothing ==
    IsUpload =>
        /\ dc_call.result.document.processing_status
               \notin {"pending", "processing"}
        /\ UploadFails =>
             /\ dc_call.result.success = FALSE
             /\ dc_call.result.chunks = <<>>
             /\ dc_call.result.document.processing_status = "failed"
             /\ dc_call.result.document.error_message # "none"
             /\ dc_call.result.error_message
                    = dc_call.result.document.error_message
             /\ processed_documents = dc_call.before.processed_documents
             /\ document_chunks = dc_call.before.document_chunks
             /\ dc_call.result.document.id \notin DOMAIN processed_documents

\* C28 witness: an upload that passed validation and failed in text
\* extraction, a document being stored already.
C28_Witness ==
    /\ IsUpload /\ dc_call.file.content = "blank_pages"
    /\ validate_pdf_file(dc_call.file) = "none"
    /\ DOMAIN processed_documents # {}

\* C34 (as claimed): a wait happens only between a failed attempt and the
\* retry that follows it.  The third, final failed attempt of an operation
\* is followed by no wait, whatever the failure, so the waits of three
\* rate-limit failures are 1 and 2 only.
C34_NoWaitAfterLastAttempt ==
    \A j \in 1..Len(cl_log) :
        /\ cl_log[j].attempt = max_retries - 1 => cl_log[j].wait = 0
        /\ cl_log[j].outcome = "ok" => cl_log[j].wait = 0

----------------------------------------------------------------------------
\* Properties of the documents page.

\* C35: remove_document and clear_all_documents leave the vector index, the
\* slot-to-chunk metadata, the document names and the two persisted files
\* as they were, so that a search made afterwards still returns the chunks
\* of a removed document.
C35_RemovalLeavesIndex ==
    [][(remove_document \/ clear_all_documents) =>
          UNCHANGED <<ix_index, chunk_metadata, document_names,
                      dk_index, dk_meta>>]_vars
C35_Witness ==
    /\ dc_call.op = "remove_document" /\ dc_call.result
    /\ dc_call.document_id \notin DOMAIN processed_documents
    /\ sr_call.called
    /\ \E i \in 1..Len(sr_call.response.results) :
          sr_call.response.results[i].chunk.document_id = dc_call.document_id
    /\ dk_meta.exists /\ dk_meta.readable
    /\ \E k \in DOMAIN dk_meta.chunk_metadata :
          dk_meta.chunk_metadata[k].document_id = dc_call.document_id

----------------------------------------------------------------------------
\* Invariants of the chat sessions.

\* C37: current_session_id is None or the id of a session in the store.
C37_CurrentSessionStored ==
    current_session_id = NoneId \/ current_session_id \in DOMAIN sessions

\* C37 witness: clear_session has removed the current session while
\* another session stays in the store.
C37_Witness ==
    /\ ch_call.op = "clear_session" /\ ch_call.result
    /\ ch_call.before.current_session_id # NoneId
    /\ ch_call.before.current_session_id \notin DOMAIN sessions
    /\ sessions # <<>>

\* C38: the messages of every session are user, assistant, user,
\* assistant, ...: an even number of them, the odd positions from the
\* user and the even ones from the assistant.
C38_MessagesAlternate ==
    \A s \in DOMAIN sessions :
        /\ Len(sessions[s]) % 2 = 0
        /\ \A j \in 1..Len(sessions[s]) :
              sessions[s][j].role = IF j % 2 = 1 THEN "user" ELSE "assistant"

\* C38 witness: a session of two exchanges, one of them answered with the
\* error message of send_message.
C38_Witness ==
    \E s \in DOMAIN sessions :
        /\ Len(sessions[s]) >= 4
        /\ \E j \in 1..Len(sessions[s]) : sessions[s][j].content = ErrorResponse
        /\ \E j \in 1..Len(sessions[s]) :
              sessions[s][j].content = ResponseContent("response_text")

----------------------------------------------------------------------------
\* Invariants of the document store.

\* C39: processed_documents and document_chunks have the same document
\* ids; every stored document is stored under its own id with status
\* completed and with total_chunks the length of its stored chunk list,
\* and every chunk of that list carries the id of the document.
C39_StoreConsistent ==
    /\ DOMAIN processed_documents = DOMAIN document_chunks
    /\ \A id \in DOMAIN processed_documents :
          /\ processed_documents[id].id = id
          /\ processed_documents[id].processing_status = "completed"
          /\ processed_documents[id].total_chunks = Len(document_chunks[id])
          /\ \A j \in 1..Len(document_chunks[id]) :
                document_chunks[id][j].document_id = id

\* C39 witness: one of two stored documents was removed and the one that
\* stays has more than one chunk.
C39_Witness ==
    /\ dc_call.op = "remove_document" /\ dc_call.result
    /\ dc_call.document_id \notin DOMAIN processed_documents
    /\ \E id \in DOMAIN processed_documents : Len(document_chunks[id]) >= 2

====
